---- MODULE Spec2Model ----
(***************************************************************************)
(* ICS honeypot: the agent control loop (client/agent.py), the config      *)
(* loader (client/config_loader.py), the server control plane              *)
(* (server/main.py, server/database.py) and the per-connection protocol     *)
(* handlers (client/plc/modbus_plc.py, client/plc/s7_plc.py).               *)
(*                                                                         *)
(* Spec     : one agent process against the server, with an operator and   *)
(*            an unreliable HTTP transport.                                *)
(* SpecWire : one Modbus and one S7 connection handler of a running        *)
(*            device, fed by an attacker.                                  *)
(***************************************************************************)
EXTENDS Integers, Sequences, FiniteSets, TLC

\* ------------------------------------------------------------- constants

\* self.max_start_attempts
MaxStartAttempts == 3
\* self.start_cooldown, seconds
StartCooldown == 10
\* time.sleep(5) at the end of a sync tick and of a startup-wait round
SyncInterval == 5
\* LogDB.get_logs(limit=10) as called by _upload_logs
UploadBatch == 10

\* Number of 5 s sleeps the clock may take (bound of the model).
MaxTicks == 6
\* Number of operator requests to the server (bound of the model).
MaxOps == 2

\* time.time() is epoch seconds: far above the cooldown when the process
\* starts. The clock starts at the smallest value with that property.
BootTime == StartCooldown
MaxTime == BootTime + MaxTicks * SyncInterval

Ids == {"X", "Y"}
NoId == "none"
\* ORDER BY node_id of ServerDB.get_all_agents
IdRank(id) == IF id = "X" THEN 1 ELSE 2

\* ----------------------------------------------------------- device configs
\* One entry of config["plcs"] as JSON: "enabled" is kept as its JSON token
\* (true/false/1/0), "note" says whether the entry carries a key starting
\* with "_" (an internal marker such as "_comment").

Dev(t, e, p, n) == [type |-> t, enabled |-> e, port |-> p, note |-> n]

RawEmpty == <<>>
RawS7 == <<Dev("s7comm", "true", 102, FALSE)>>
RawS7Marked == <<Dev("s7comm", "1", 102, TRUE)>>
RawOff == <<Dev("s7comm", "false", 102, FALSE)>>
RawModbus == <<Dev("modbus", "true", 502, FALSE)>>
RawBadPort == <<Dev("s7comm", "true", 0, FALSE)>>

\* What the operator may store as an agent's device list.
RawChoices == {RawS7, RawS7Marked, RawOff, RawBadPort}

Cfg(id, p, o) == [node_id |-> id, plcs |-> p, original_id |-> o]

\* ConfigLoader.clean_config: keys starting with "_" are dropped, recursively.
CleanDev(d) == [d EXCEPT !.note = FALSE]
CleanConfig(c) == [c EXCEPT !.plcs = [i \in DOMAIN c.plcs |-> CleanDev(c.plcs[i])]]

\* ConfigLoader.validate_config, per device: type and port range.
ValidDev(d) == d.type \in {"modbus", "s7comm"} /\ d.port >= 1 /\ d.port <= 65535
ValidateConfig(c) == \A i \in DOMAIN c.plcs : ValidDev(c.plcs[i])

\* bool(plc_conf["enabled"]) on a JSON value, as the JSON token of the result.
PyBool(tok) == IF tok \in {"true", "1"} THEN "true" ELSE "false"
NormalizeDev(d) == [d EXCEPT !.enabled = PyBool(d.enabled)]
NormalizeConfig(c) == [c EXCEPT !.plcs = [i \in DOMAIN c.plcs |-> NormalizeDev(c.plcs[i])]]

\* ConfigLoader.parse_server_config: clean, validate, normalize.
ParseServerConfig(raw) ==
    LET cleaned == CleanConfig(raw)
    IN  IF ValidateConfig(cleaned)
        THEN [success |-> TRUE, config |-> NormalizeConfig(cleaned)]
        ELSE [success |-> FALSE, config |-> cleaned]

\* Local configs the agent can have loaded at start (load_config normalizes).
LocalChoices == {RawEmpty, RawS7, RawModbus}

VARIABLES
    \* server (ServerDB)
    agents,      \* agents table: node_id -> row, for the registered ids
    srvLogs,     \* logs table: the node_id and the client record of each row
    ops,         \* operator actions so far: requests to the server, restarts
    clock,       \* datetime.now() on the server's host, seconds
    \* agent (NodeAgent)
    node_id, config, saved, plcs, start_attempt_count, last_start_attempt_time,
    logs,        \* LogDB: the records, in id order, each with its uploaded flag
    upload,      \* the rows _upload_logs holds between get_logs and the POST
    phase,       \* "boot": the wait loop of start(); "sync": _sync_loop
    pc,          \* next call of the loop: "hb", "fetch", "upload", "sleep"
    now,         \* the clock, seconds
    \* the last step taken: request sent, response seen, what the agent did
    ev,
    \* history for the claims
    renamePending,      \* the id the operator has just renamed this agent to
    reloadPending,      \* a config was installed and no start attempted since
    attemptsSinceReset, \* start attempts since the counter was last reset
    lastAttemptAt,      \* the clock at the last start attempt, -1 before it
    acked,              \* ids of the records of the POSTs answered 200
    \* one connection to a running device (ModbusPLC / S7PLC._handle_client)
    conn,        \* the handler thread: protocol, position, request in hand
    wire,        \* what client_sock.send has put on the wire, in order
    reqs,        \* frames read from the socket so far
    accepted,    \* the frames for which the handler built a response
    \* the memory images of a running S7PLC and a running ModbusPLC
    storage,     \* self.storage of each device, keyed by protocol
    race,        \* a tick and an FC3 round in progress on one image, by statement
    life,        \* a device's running flag, listening socket and threads
    store,       \* the profile loader's cache: what it returns for the profile
    hist         \* requests answered and simulator ticks, in the order they
                 \* took effect on the images

ctlVars == <<agents, srvLogs, ops, node_id, config, saved, plcs, start_attempt_count,
             last_start_attempt_time, phase, pc, now, ev,
             renamePending, reloadPending, attemptsSinceReset, lastAttemptAt,
             upload, acked, clock>>
wireVars == <<conn, wire, reqs, accepted>>
devVars == <<storage, race, life, store, hist>>
vars == <<ctlVars, logs, wireVars, devVars>>

\* ------------------------------------------------------------------ server

NoName == "none"
PendingName(id) == "Pending (" \o id \o ")"

\* A row of the agents table. The ip and status columns are left out: they
\* are written at registration and at each heartbeat ("Online") and read by
\* the dashboard only.
Row(name, active, cfg, seen) ==
    [name |-> name, is_active |-> active, config |-> cfg, last_heartbeat |-> seen]

\* ServerDB.get_agent: the row, if any
Registered(a, id) == id \in DOMAIN a

\* ServerDB.register_agent: INSERT OR REPLACE keeping the is_active of an
\* existing row; a new row is inactive.
RegisterAgentActive(a, id, name, cfg, t) ==
    LET active == IF id \in DOMAIN a THEN a[id].is_active ELSE TRUE
    IN  [i \in DOMAIN a \cup {id} |->
            IF i = id THEN Row(name, active, cfg, t) ELSE a[i]]
RegisterAgent(a, id, name, cfg, t) ==
    LET active == IF id \in DOMAIN a THEN a[id].is_active ELSE FALSE
    IN  [i \in DOMAIN a \cup {id} |->
            IF i = id THEN Row(name, active, cfg, t) ELSE a[i]]

\* ServerDB.update_heartbeat: last_heartbeat = now, for the row if it exists
UpdateHeartbeatSkipped(a, id, t) == a
UpdateHeartbeat(a, id, t) ==
    IF id \in DOMAIN a THEN [a EXCEPT ![id].last_heartbeat = t] ELSE a

\* The adoption scan of heartbeat(): the first agent, in node_id order, whose
\* config carries original_id = the heartbeat's node_id.
Adopters(a, id) == {i \in DOMAIN a : a[i].config.original_id = id}
FirstById(S) == CHOOSE i \in S : \A j \in S : IdRank(i) <= IdRank(j)

Reply(status, command, new) ==
    [status |-> status, command |-> command, new_node_id |-> new]
NoReply == Reply("none", "none", NoId)

\* The body of a heartbeat: Heartbeat(BaseModel) without ip and name, which
\* the handler passes to the ip column or leaves unread.
Hb(id, cfg) == [node_id |-> id, config |-> cfg]

\* A heartbeat() that lacks the adoption scan: a fault the properties must detect.
HeartbeatMissesAdoption(a, hb, t) ==
    IF ~Registered(a, hb.node_id)
    THEN [agents |-> RegisterAgent(a, hb.node_id, PendingName(hb.node_id),
                                   Cfg(hb.node_id, <<>>, hb.node_id), t),
          reply |-> Reply("registered", "start", NoId)]
    ELSE [agents |-> UpdateHeartbeat(a, hb.node_id, t),
          reply |-> Reply("ok", IF a[hb.node_id].is_active THEN "start" ELSE "stop",
                          NoId)]

\* A heartbeat() that registers the sender although an agent adopts it: a
\* fault the properties must detect.
HeartbeatRegistersAdopted(a, hb, t) ==
    IF ~Registered(a, hb.node_id)
    THEN [agents |-> RegisterAgent(a, hb.node_id, PendingName(hb.node_id),
                                   Cfg(hb.node_id, <<>>, hb.node_id), t),
          reply |-> IF Adopters(a, hb.node_id) # {}
                    THEN Reply("adopted", "stop", FirstById(Adopters(a, hb.node_id)))
                    ELSE Reply("registered", "start", NoId)]
    ELSE [agents |-> UpdateHeartbeat(a, hb.node_id, t),
          reply |-> Reply("ok", IF a[hb.node_id].is_active THEN "start" ELSE "stop",
                          NoId)]

\* POST /api/heartbeat at server time t. hb.config is not read.
Heartbeat(a, hb, t) ==
    IF ~Registered(a, hb.node_id)
    THEN IF Adopters(a, hb.node_id) # {}
         THEN [agents |-> a,
               reply |-> Reply("adopted", "stop", FirstById(Adopters(a, hb.node_id)))]
         ELSE [agents |-> RegisterAgent(a, hb.node_id, PendingName(hb.node_id),
                                        Cfg(hb.node_id, <<>>, hb.node_id), t),
               reply |-> Reply("registered", "start", NoId)]
    ELSE [agents |-> UpdateHeartbeat(a, hb.node_id, t),
          reply |-> Reply("ok", IF a[hb.node_id].is_active THEN "start" ELSE "stop",
                          NoId)]

\* ServerDB.rename_agent on the agents table: refused when the new id exists.
RenameAgentOverwrites(a, old, new) ==
    IF old \in DOMAIN a
    THEN [ok |-> TRUE,
          agents |-> [i \in (DOMAIN a \ {old}) \cup {new} |->
                         IF i = new THEN a[old] ELSE a[i]]]
    ELSE [ok |-> TRUE, agents |-> a]
RenameAgent(a, old, new) ==
    IF new \in DOMAIN a
    THEN [ok |-> FALSE, agents |-> a]
    ELSE IF old \in DOMAIN a
         THEN [ok |-> TRUE,
               agents |-> [i \in (DOMAIN a \ {old}) \cup {new} |->
                              IF i = new THEN a[old] ELSE a[i]]]
         ELSE [ok |-> TRUE, agents |-> a]

\* ServerDB.rename_agent on the logs table: UPDATE logs SET node_id = new.
RenameLogsSkipped(l, old, new) == l
RenameLogs(l, old, new) ==
    [i \in DOMAIN l |-> IF l[i].node_id = old THEN [l[i] EXCEPT !.node_id = new] ELSE l[i]]

\* ServerDB.update_agent_config
DbUpdateAgentConfig(a, id, cfg, name) ==
    IF id \in DOMAIN a
    THEN [a EXCEPT ![id].config = cfg,
                   ![id].name = IF name # NoName THEN name ELSE @]
    ELSE a

\* POST /api/update_agent_config
UpdateAgentConfig(a, l, cur, new, cfg, name) ==
    IF new # NoId /\ new # cur
    THEN LET r == RenameAgent(a, cur, new)
         IN  IF ~r.ok
             THEN [status |-> "error", agents |-> a, logs |-> l, new_node_id |-> NoId]
             ELSE [status |-> "updated",
                   agents |-> DbUpdateAgentConfig(r.agents, new,
                                 [cfg EXCEPT !.node_id = new, !.original_id = cur], name),
                   logs |-> RenameLogs(l, cur, new),
                   new_node_id |-> new]
    ELSE [status |-> "updated",
          agents |-> DbUpdateAgentConfig(a, cur, cfg, name),
          logs |-> l,
          new_node_id |-> cur]

\* ServerDB.toggle_agent_active
ToggleAgentActive(a, id, active) ==
    IF id \in DOMAIN a THEN [a EXCEPT ![id].is_active = active] ELSE a

\* ServerDB.delete_agent
DeleteAgent(a, id) == [i \in DOMAIN a \ {id} |-> a[i]]

\* ServerDB.insert_logs: one row per uploaded record, keyed by the batch's node_id.
InsertLogs(l, id, batch) ==
    l \o [i \in DOMAIN batch |-> [node_id |-> id, rec |-> batch[i].id]]

\* ------------------------------------------------------------------- agent
\* The agent's fields as one record, so that each branch of a handler is a
\* function from the state before it to the state after it. "attempt" says
\* whether the branch called _start_plcs, "error" whether it printed
\* "Failed to start PLCs after 3 attempts".

AgentState ==
    [node_id |-> node_id, config |-> config, saved |-> saved, plcs |-> plcs,
     count |-> start_attempt_count, last |-> last_start_attempt_time,
     attempt |-> FALSE, error |-> FALSE]

\* NodeAgent._stop_plcs: every device is stopped and the list is emptied.
StopPlcs(s) == [s EXCEPT !.plcs = <<>>]

\* ConfigLoader.save_config: the cleaned config is written to the file.
SaveConfig(s) == [s EXCEPT !.saved = CleanConfig(s.config)]

\* ModbusPLC(port=, db=, model=, vendor=, revision=, devices=,
\* simulation_config=) as called by _start_plcs: ModbusPLC.__init__ takes
\* port, db, model and devices only, so the call raises TypeError, which
\* _start_plcs catches and counts as a device that did not start.
ConstructorRaises(d) == d.type = "modbus"

\* S7PLC.start / ModbusPLC.start: the listener thread is spawned and start()
\* returns; bind() runs in that thread, where its OSError is caught and
\* printed. "listening" says whether the thread could bind the port.
StartedDevice(d, busy) ==
    [type |-> d.type, port |-> d.port, listening |-> d.port \notin busy]

\* NodeAgent._start_plcs: the devices appended to self.plcs, in config order.
RECURSIVE StartPlcs(_, _)
StartPlcs(devs, busy) ==
    IF devs = <<>> THEN <<>>
    ELSE LET d == Head(devs)
             rest == StartPlcs(Tail(devs), busy)
         IN  IF d.enabled = "true" /\ ~ConstructorRaises(d)
             THEN <<StartedDevice(d, busy)>> \o rest
             ELSE rest

\* current_time - self.last_start_attempt_time < self.start_cooldown
CooldownNever(s, t) == FALSE
InCooldown(s, t) == t - s.last < StartCooldown

\* self.start_attempt_count >= self.max_start_attempts
ExhaustedOffByOne(s) == s.count > MaxStartAttempts
AttemptsExhausted(s) == s.count >= MaxStartAttempts

\* command == "start"
OnStartReportsAgain(s, t, busy) ==
    IF s.plcs = <<>> /\ s.config.plcs # <<>>
    THEN IF InCooldown(s, t) THEN s
         ELSE IF AttemptsExhausted(s)
              THEN [s EXCEPT !.error = TRUE]
              ELSE LET started == StartPlcs(s.config.plcs, busy)
                   IN  IF started # <<>>
                       THEN SaveConfig([s EXCEPT !.last = t, !.count = 0,
                                                  !.plcs = started, !.attempt = TRUE])
                       ELSE [s EXCEPT !.last = t, !.count = @ + 1, !.attempt = TRUE]
    ELSE s
OnStart(s, t, busy) ==
    IF s.plcs = <<>> /\ s.config.plcs # <<>>
    THEN IF InCooldown(s, t) THEN s
         ELSE IF AttemptsExhausted(s)
              THEN IF s.count = MaxStartAttempts
                   THEN [s EXCEPT !.count = @ + 1, !.error = TRUE]
                   ELSE s
              ELSE LET started == StartPlcs(s.config.plcs, busy)
                   IN  IF started # <<>>
                       THEN SaveConfig([s EXCEPT !.last = t, !.count = 0,
                                                  !.plcs = started, !.attempt = TRUE])
                       ELSE [s EXCEPT !.last = t, !.count = @ + 1, !.attempt = TRUE]
    ELSE s

\* command == "stop"
StopIgnored(s) == s
OnStop(s) ==
    IF s.plcs # <<>> THEN [StopPlcs(s) EXCEPT !.count = 0] ELSE s

\* new_node_id and new_node_id != self.node_id
AdoptionKeepsDevices(s, new) ==
    [SaveConfig([s EXCEPT !.node_id = new, !.config.node_id = new])
        EXCEPT !.count = 0]
OnAdoption(s, new) ==
    [StopPlcs(SaveConfig([s EXCEPT !.node_id = new, !.config.node_id = new]))
        EXCEPT !.count = 0]

\* NodeAgent._send_heartbeat, status 200
OnHeartbeatReply(s, reply, t, busy) ==
    IF reply.new_node_id # NoId /\ reply.new_node_id # s.node_id
    THEN OnAdoption(s, reply.new_node_id)
    ELSE IF reply.command = "stop" THEN OnStop(s)
    ELSE IF reply.command = "start" THEN OnStart(s, t, busy)
    ELSE s

\* NodeAgent._send_heartbeat, except Exception: the safety stop
HeartbeatErrorKeepsDevices(s) == s
OnHeartbeatError(s) == IF s.plcs # <<>> THEN StopPlcs(s) ELSE s

\* NodeAgent._send_heartbeat, a status other than 200: requests.post
\* returns, the if has no else branch
StatusTakenAsError(s) == OnHeartbeatError(s)
OnHeartbeatStatus(s) == s

\* NodeAgent._fetch_config, status 200
ReloadKeepsCooldown(s, raw) ==
    LET r == ParseServerConfig(raw)
    IN  IF ~r.success THEN s
        ELSE IF r.config.plcs # s.config.plcs
             THEN [StopPlcs([s EXCEPT !.config = r.config]) EXCEPT !.count = 0]
             ELSE s
ReloadRestartsDevices(s, raw) ==
    LET r == ParseServerConfig(raw)
    IN  IF ~r.success THEN s
        ELSE IF r.config.plcs # s.config.plcs
             THEN [s EXCEPT !.config = r.config, !.count = 0, !.last = 0,
                            !.plcs = StartPlcs(r.config.plcs, {}),
                            !.attempt = TRUE]
             ELSE s
ReloadOnRawDiff(s, raw) ==
    LET r == ParseServerConfig(raw)
    IN  IF ~r.success THEN s
        ELSE IF raw.plcs # s.config.plcs
             THEN [StopPlcs([s EXCEPT !.config = r.config])
                      EXCEPT !.count = 0, !.last = 0]
             ELSE s
ReloadSkipsEmpty(s, raw) ==
    LET r == ParseServerConfig(raw)
    IN  IF ~r.success THEN s
        ELSE IF r.config.plcs # <<>> /\ r.config.plcs # s.config.plcs
             THEN [StopPlcs([s EXCEPT !.config = r.config])
                      EXCEPT !.count = 0, !.last = 0]
             ELSE s
InstallsInvalid(s, raw) ==
    LET c == NormalizeConfig(CleanConfig(raw))
    IN  IF c.plcs # s.config.plcs
        THEN [StopPlcs([s EXCEPT !.config = c]) EXCEPT !.count = 0, !.last = 0]
        ELSE s
OnConfig(s, raw) ==
    LET r == ParseServerConfig(raw)
    IN  IF ~r.success THEN s
        ELSE IF r.config.plcs # s.config.plcs
             THEN [StopPlcs([s EXCEPT !.config = r.config])
                      EXCEPT !.count = 0, !.last = 0]
             ELSE s

\* LogDB.get_logs(limit): the oldest records not yet uploaded
RECURSIVE Take(_, _)
Take(q, n) == IF n = 0 \/ q = <<>> THEN <<>> ELSE <<Head(q)>> \o Take(Tail(q), n - 1)
GetLogsAnyFlag(l, limit) == Take(l, limit)
\* The pending ones among the first rows of the table only: a fault the
\* properties must detect.
GetLogsFirstRows(l, limit) == SelectSeq(Take(l, limit), LAMBDA r : ~r.uploaded)
GetLogs(l, limit) == Take(SelectSeq(l, LAMBDA r : ~r.uploaded), limit)

\* LogDB.mark_uploaded
MarkUploaded(l, batch) ==
    [i \in DOMAIN l |->
        IF \E j \in DOMAIN batch : batch[j].id = l[i].id
        THEN [l[i] EXCEPT !.uploaded = TRUE] ELSE l[i]]

\* ------------------------------------------------------- protocol handlers
\* A frame is kept as its parsed fields; "seq" is the frame's ordinal among
\* the frames read, which tells two frames with equal bytes apart.

\* LogDB.log_interaction: INSERT with the next AUTOINCREMENT id, uploaded = 0
\* Of the metadata, the value under "s7.action" is kept ("none": no such key).
LogInteraction(l, protocol, request, response, metadata) ==
    Append(l, [id |-> Len(l) + 1, uploaded |-> FALSE, protocol |-> protocol,
               request |-> request, response |-> response, action |-> metadata])

Zeros(n) == [i \in 1..n |-> 0]

\* What a handler does with one frame. "raise": an exception leaves the loop
\* and the socket is closed; "ignore": back to recv, nothing logged or sent;
\* "respond": the steps left for this frame, in program order, the response
\* put on the wire, the response stored in the record, and whether the
\* handler leaves the loop afterwards.
\* "meta" is the s7.action of the record's metadata.
Raise == [outcome |-> "raise", response |-> <<>>, logged |-> <<>>,
          steps |-> <<>>, close |-> TRUE, meta |-> "none"]
Ignore == [outcome |-> "ignore", response |-> <<>>, logged |-> <<>>,
           steps |-> <<>>, close |-> FALSE, meta |-> "none"]
Respond(resp, logged, steps, close) ==
    [outcome |-> "respond", response |-> resp, logged |-> logged,
     steps |-> steps, close |-> close, meta |-> "none"]

\* COTP PDU types
CotpCR == 224
CotpDT == 240
CotpDR == 128
CotpCC == 208

\* ------------------------------------------------------ the memory images

\* A Python dict with integer keys: m.get(k, d), and m[k] = v.
Get(m, k, d) == IF k \in DOMAIN m THEN m[k] ELSE d
Put(m, k, v) == [x \in DOMAIN m \cup {k} |-> IF x = k THEN v ELSE m[x]]
NoEntries == [x \in {} |-> 0]

\* A bytearray is kept as its length and its bytes other than 0.
ByteArray(n) == [len |-> n, at |-> NoEntries]

\* source[start : start + length], for a slice inside the bytearray
Slice(b, start, length) == [i \in 1..length |-> Get(b.at, start + i - 1, 0)]

\* target[start : start + n] = data[:n]
Store(b, start, data, n) ==
    LET byte(o) == IF o \in start..(start + n - 1) THEN data[o - start + 1]
                   ELSE b.at[o]
    IN  [b EXCEPT !.at = [o \in {x \in DOMAIN b.at \cup (start..(start + n - 1)) :
                                    byte(x) # 0} |-> byte(o)]]

\* S7 area codes, and the size of the M, I and Q bytearrays
AreaI == 129
AreaQ == 130
AreaM == 131
AreaDB == 132
FixedSize == 65536
\* the size _run_simulation gives a data block
SimDbSize == 1024

\* S7PLC.storage after __init__
S7Storage == [DB |-> NoEntries, M |-> ByteArray(FixedSize),
              I |-> ByteArray(FixedSize), Q |-> ByteArray(FixedSize)]

\* S7PLC._ensure_db
EnsureDb(st, db_num, min_size) ==
    IF db_num \notin DOMAIN st.DB
    THEN [st EXCEPT !.DB = Put(@, db_num, ByteArray(min_size))]
    ELSE IF st.DB[db_num].len < min_size
    THEN [st EXCEPT !.DB[db_num].len = min_size]
    ELSE st

\* the bytearray an area code selects ("source" / "target"); for the DB area
\* it is the data block after _ensure_db
AreaKnown(area) == area \in {AreaDB, AreaM, AreaI, AreaQ}
AreaBytes(st, area, db_num) ==
    IF area = AreaDB THEN st.DB[db_num]
    ELSE IF area = AreaM THEN st.M
    ELSE IF area = AreaI THEN st.I
    ELSE st.Q
WithAreaBytes(st, area, db_num, b) ==
    IF area = AreaDB THEN [st EXCEPT !.DB[db_num] = b]
    ELSE IF area = AreaM THEN [st EXCEPT !.M = b]
    ELSE IF area = AreaI THEN [st EXCEPT !.I = b]
    ELSE [st EXCEPT !.Q = b]

\* S7PLC._read_data: the bytes returned and the storage afterwards (a read of
\* a data block creates or extends it). Zeros for an unknown area and for a
\* read that ends past the end of M, I or Q.
ReadData(st, area, db_num, start, length) ==
    LET st1 == IF area = AreaDB THEN EnsureDb(st, db_num, start + length) ELSE st
    IN  [storage |-> st1,
         data |-> IF AreaKnown(area)
                     /\ start + length <= AreaBytes(st1, area, db_num).len
                  THEN Slice(AreaBytes(st1, area, db_num), start, length)
                  ELSE Zeros(length)]

\* A write that stores nothing: a fault the properties must detect.
WriteDataDropped(st, area, db_num, start, data) == st

\* S7PLC._write_data: a data block is created or extended to hold the write;
\* in M, I and Q the bytes past the end are dropped; an unknown area is
\* not written.
WriteData(st, area, db_num, start, data) ==
    IF ~AreaKnown(area) THEN st
    ELSE LET st1 == IF area = AreaDB
                    THEN EnsureDb(st, db_num, start + Len(data)) ELSE st
             target == AreaBytes(st1, area, db_num)
             end == IF start + Len(data) < target.len
                    THEN start + Len(data) ELSE target.len
             write_len == end - start
         IN  IF write_len > 0
             THEN WithAreaBytes(st1, area, db_num,
                                Store(target, start, data, write_len))
             ELSE st1

\* A Write Var item: the item header (area, DB number, byte index) and its
\* data item (length in bits, data).
WriteItem(area, db_num, start, data) ==
    [area |-> area, db_num |-> db_num, start |-> start,
     bits |-> 8 * Len(data), data |-> data]

\* _handle_client, Write Var (function 5) with item count "count" and the
\* items sent: the storage afterwards and response_data, kept as <<COTP
\* type, ROSCTR, function, item count, return codes...>>. Only the first item
\* is parsed and written; the response names one item and carries one
\* return code. No response_data is built for an item count of 0 or a
\* request without a complete first item.
S7WriteVar(st, count, items) ==
    IF count >= 1 /\ items # <<>>
    THEN LET it == items[1]
             data_bytes == Take(it.data, (it.bits + 7) \div 8)
         IN  [storage |-> WriteData(st, it.area, it.db_num, it.start, data_bytes),
              raised |-> FALSE,
              response |-> <<CotpDT, 3, 5, 1, 255>>]
    ELSE [storage |-> st, raised |-> FALSE, response |-> <<>>]

\* A Read Var item: transport type, element count, area, DB number, byte index
ReadItem(transport, length, area, db_num, start) ==
    [transport |-> transport, length |-> length, area |-> area,
     db_num |-> db_num, start |-> start]

\* _handle_client, Read Var (function 4): the first item is read; the
\* response is <<COTP type, ROSCTR, function, item count, return code,
\* transport size, length in bits, data...>>. struct.pack('>H', bits) raises
\* for 8192 bytes or more, after the read.
S7ReadVar(st, count, it) ==
    IF count >= 1
    THEN LET data_len_bytes == IF it.transport = 1 THEN (it.length + 7) \div 8
                               ELSE IF it.transport = 4 THEN it.length * 2
                               ELSE it.length
             r == ReadData(st, it.area, it.db_num, it.start, data_len_bytes)
         IN  IF data_len_bytes * 8 > 65535
             THEN [storage |-> r.storage, raised |-> TRUE, response |-> <<>>]
             ELSE [storage |-> r.storage, raised |-> FALSE,
                   response |-> <<CotpDT, 3, 4, 1, 255,
                                  IF it.transport = 1 THEN 3 ELSE 4,
                                  data_len_bytes * 8>> \o r.data]
    ELSE [storage |-> st, raised |-> FALSE, response |-> <<>>]

\* The S7 simulation config in use: one INT entry in DB1 at byte 0.
S7SimDb == 1
S7SimOffset == 0

\* struct.pack('>H', int(value) & 0xFFFF)
PackH(value) == <<(value % 65536) \div 256, value % 256>>

\* One pass of the loop of _run_simulation, "value" being what the entry's
\* waveform gives at this time.
S7Simulate(st, value) ==
    WriteData(EnsureDb(st, S7SimDb, SimDbSize), AreaDB, S7SimDb, S7SimOffset,
              PackH(value))

\* The dicts of one unit of a Modbus device.
UnitImage == [coils |-> NoEntries, holding_registers |-> NoEntries,
              input_registers |-> NoEntries, discrete_inputs |-> NoEntries]

\* A register write that stores nothing: a fault the properties must detect.
WriteRegisterDropped(regs, addr, val) == regs
\* self.storage[unit_id]['holding_registers'][addr] = val
WriteRegister(regs, addr, val) == Put(regs, addr, val)

\* the coil status bytes of FC1: bit i of byte j is coil start_addr + 8 j + i
CoilBytes(coils, start_addr, quantity) ==
    LET bit(k) == IF Get(coils, start_addr + k, FALSE) THEN 1 ELSE 0
        live(k) == k < quantity
        b(j) == (IF live(8*j) THEN bit(8*j) ELSE 0)
                + (IF live(8*j + 1) THEN 2 * bit(8*j + 1) ELSE 0)
                + (IF live(8*j + 2) THEN 4 * bit(8*j + 2) ELSE 0)
                + (IF live(8*j + 3) THEN 8 * bit(8*j + 3) ELSE 0)
                + (IF live(8*j + 4) THEN 16 * bit(8*j + 4) ELSE 0)
                + (IF live(8*j + 5) THEN 32 * bit(8*j + 5) ELSE 0)
                + (IF live(8*j + 6) THEN 64 * bit(8*j + 6) ELSE 0)
                + (IF live(8*j + 7) THEN 128 * bit(8*j + 7) ELSE 0)
    IN  [j \in 1..((quantity + 7) \div 8) |-> b(j - 1)]

\* the register bytes of FC3: struct.pack('>H', val) for each register
RegBytes(regs, start_addr, quantity) ==
    [i \in 1..(2 * quantity) |->
        LET val == Get(regs, start_addr + (i - 1) \div 2, 0)
        IN  IF i % 2 = 1 THEN val \div 256 ELSE val % 256]

\* ConfigDrivenSimulator: the entries of the profile in use. A register entry
\* has an address, a waveform, a type and "min"; a coil or discrete input
\* entry has an address, a waveform and "value".
SimEntry(addr, wave, type, min) ==
    [addr |-> addr, wave |-> wave, type |-> type, min |-> min]
BoolEntry(addr, wave, value) == [addr |-> addr, wave |-> wave, value |-> value]
HoldingRegisters ==
    <<SimEntry(10, "static", "int16", 7), SimEntry(20, "sine", "float32", 0),
      SimEntry(3200, "static", "int16", 5), SimEntry(5000, "static", "int16", 0)>>
InputRegisters == <<SimEntry(30, "static", "int16", 7)>>
CoilEntries == <<BoolEntry(5, "static", TRUE)>>
DiscreteInputs == <<BoolEntry(6, "static", FALSE)>>

\* _generate_value returns None for a static entry
None == -1

\* _generate_value: None for "static", otherwise the value "gen" the waveform
\* has at this tick. A float is kept as its IEEE-754 bit pattern.
GenerateValue(cfg, gen) == IF cfg.wave = "static" THEN None ELSE gen

\* _generate_bool_value, as "None", "True" or "False"
GenerateBoolValue(cfg, gen) == IF cfg.wave = "static" THEN "None" ELSE gen

\* _encode_float32: the two big-endian 16-bit halves
EncodeFloat32(bits) == <<bits \div 65536, bits % 65536>>

\* The values the sine entry takes at the ticks of a run: 1.1 and 1.5.
FloatChoices == {1066192077, 1069547520}

\* update_storage, the loop over the holding registers
RECURSIVE UpdateHolding(_, _, _)
UpdateHolding(regs, entries, gen) ==
    IF entries = <<>> THEN regs
    ELSE LET cfg == Head(entries)
             val == GenerateValue(cfg, gen)
             next == IF val = None
                     THEN IF cfg.addr \in DOMAIN regs THEN regs
                          ELSE Put(regs, cfg.addr, cfg.min)
                     ELSE IF cfg.type = "float32"
                     THEN Put(Put(regs, cfg.addr, EncodeFloat32(val)[1]),
                              cfg.addr + 1, EncodeFloat32(val)[2])
                     ELSE Put(regs, cfg.addr, val)
         IN  UpdateHolding(next, Tail(entries), gen)

\* update_storage, the loop over the input registers: the generated value is
\* stored whatever it is
RECURSIVE UpdateInput(_, _, _)
UpdateInput(regs, entries, gen) ==
    IF entries = <<>> THEN regs
    ELSE UpdateInput(Put(regs, Head(entries).addr, GenerateValue(Head(entries), gen)),
                     Tail(entries), gen)

\* update_storage, the loop over the discrete inputs
RECURSIVE UpdateDiscrete(_, _, _)
UpdateDiscrete(bits, entries, gen) ==
    IF entries = <<>> THEN bits
    ELSE LET val == GenerateBoolValue(Head(entries), gen)
         IN  UpdateDiscrete(IF val # "None" THEN Put(bits, Head(entries).addr, val = "True")
                            ELSE bits,
                            Tail(entries), gen)

\* update_storage, the loop over the coils
RECURSIVE UpdateCoils(_, _, _)
UpdateCoils(bits, entries, gen) ==
    IF entries = <<>> THEN bits
    ELSE LET cfg == Head(entries)
             val == GenerateBoolValue(cfg, gen)
         IN  UpdateCoils(IF val # "None" THEN Put(bits, cfg.addr, val = "True")
                         ELSE IF cfg.addr \notin DOMAIN bits
                         THEN Put(bits, cfg.addr, cfg.value)
                         ELSE bits,
                         Tail(entries), gen)

\* registers the breaker trip zeroes
VoltageRegisters == {3020, 3021, 3022, 3023, 3024, 3025}

\* _handle_pm5300_command: command 2020 zeroes the energy registers and clears
\* the command register; a set coil 0 zeroes the voltage registers that
\* exist. The scaling of the currents needs registers 2012 and 2013, which
\* are not in the profile in use and which no request drawn here writes.
HandlePm5300Command(u) ==
    LET regs == u.holding_registers
        reset == IF 3200 \in DOMAIN regs THEN Put(Put(regs, 3200, 0), 3201, 0)
                 ELSE regs
        commanded == IF Get(regs, 5000, 0) = 2020
                     THEN Put(Put(reset, 5002, 0), 5000, 0)
                     ELSE regs
        tripped == IF Get(u.coils, 0, FALSE)
                   THEN [a \in DOMAIN commanded |->
                            IF a \in VoltageRegisters THEN 0 ELSE commanded[a]]
                   ELSE commanded
    IN  [u EXCEPT !.holding_registers = tripped]

\* update_storage(storage, unit_id): "gen" is the value of the float entry,
\* "bgen" the value of the boolean waveforms at this tick
UpdateStorage(st, unit_id, gen, bgen) ==
    LET st1 == IF unit_id \in DOMAIN st THEN st ELSE Put(st, unit_id, UnitImage)
        u == st1[unit_id]
        updated == [coils |-> UpdateCoils(u.coils, CoilEntries, bgen),
                    holding_registers |->
                        UpdateHolding(u.holding_registers, HoldingRegisters, gen),
                    input_registers |->
                        UpdateInput(u.input_registers, InputRegisters, gen),
                    discrete_inputs |->
                        UpdateDiscrete(u.discrete_inputs, DiscreteInputs, bgen)]
    IN  [st1 EXCEPT ![unit_id] =
            IF \E i \in DOMAIN HoldingRegisters : HoldingRegisters[i].addr = 5000
            THEN HandlePm5300Command(updated) ELSE updated]

\* self.devices of a ModbusPLC built without a device list: unit 1
ModbusUnits == {1}

\* struct.pack('BB', a, b): struct.error unless both fit a byte
PackBB(a, b) ==
    [raised |-> a > 255 \/ b > 255, pdu |-> <<a, b>>]

\* ModbusPLC._handle_modbus_function: the response PDU for function code fc
\* and request data <<address, quantity or value>> (16-bit words), and the
\* storage afterwards. The unit's dicts are created on first use; FC2 and
\* FC4 return zeros whatever is stored. The identification functions 17 and
\* 43 are not among the frames drawn.
ModbusExec(st, unit_id, fc, data) ==
    LET st1 == IF unit_id \in DOMAIN st THEN st ELSE Put(st, unit_id, UnitImage)
        u == st1[unit_id]
        read(h, body) == [raised |-> h.raised,
                          pdu |-> IF h.raised THEN <<>> ELSE h.pdu \o body,
                          storage |-> st1]
    IN  IF fc = 1 /\ Len(data) >= 2
        THEN read(PackBB(fc, (data[2] + 7) \div 8),
                  CoilBytes(u.coils, data[1], data[2]))
        ELSE IF fc = 3 /\ Len(data) >= 2
        THEN read(PackBB(fc, data[2] * 2),
                  RegBytes(u.holding_registers, data[1], data[2]))
        ELSE IF fc = 2 /\ Len(data) >= 2
        THEN read(PackBB(fc, (data[2] + 7) \div 8), Zeros((data[2] + 7) \div 8))
        ELSE IF fc = 4 /\ Len(data) >= 2
        THEN read(PackBB(fc, data[2] * 2), Zeros(data[2] * 2))
        ELSE IF fc = 5 /\ Len(data) >= 2
        THEN [raised |-> FALSE, pdu |-> <<fc, data[1], data[2]>>,
              storage |-> [st1 EXCEPT ![unit_id].coils =
                              Put(@, data[1], data[2] = 65280)]]
        ELSE IF fc = 6 /\ Len(data) >= 2
        THEN [raised |-> FALSE, pdu |-> <<fc, data[1], data[2]>>,
              storage |-> [st1 EXCEPT ![unit_id].holding_registers =
                              WriteRegister(@, data[1], data[2])]]
        ELSE read(PackBB(fc + 128, 1), <<>>)

\* The response PDU of a device on which nothing has been written yet.
ModbusFunction(fc, data) ==
    LET r == ModbusExec(NoEntries, 1, fc, data)
    IN  [raised |-> r.raised, pdu |-> r.pdu]

\* _handle_client: the response PDU for a frame with a function code, and
\* the storage afterwards. A unit that is not in self.devices is answered
\* with exception 0x0A and the storage is not touched.
ModbusResponse(st, r) ==
    IF r.unit \in ModbusUnits
    THEN ModbusExec(st, r.unit, Head(r.pdu), Tail(r.pdu))
    ELSE LET h == PackBB(Head(r.pdu) + 128, 10)
         IN  [raised |-> h.raised, pdu |-> IF h.raised THEN <<>> ELSE h.pdu,
              storage |-> st]

\* ModbusPLC._handle_client, one round of the loop after the frame is read:
\* the response PDU is built, then the record is written, then the MBAP
\* header is put in front and the frame is sent. The record stores the PDU.
ModbusHandle(r) ==
    IF r.pdu = <<>> THEN Raise
    ELSE LET fc == Head(r.pdu)
             f == IF r.unit \in ModbusUnits
                  THEN ModbusFunction(fc, Tail(r.pdu))
                  ELSE PackBB(fc + 128, 10)
         IN  IF f.raised THEN Raise
             ELSE Respond(<<r.unit>> \o f.pdu, f.pdu, <<"log", "send">>, FALSE)

\* S7PLC.PROFILES[...]["valid_slots"]
ValidSlotsAny(model) == {1, 2}
ValidSlots(model) == IF model = "S7-300" THEN {2} ELSE {1}

\* The S7 job or userdata carried in a DT: response_data as the code builds
\* it, kept as <<COTP type, ROSCTR, function or error class, error code>>.
S7Job(r) ==
    IF r.func = 240 THEN <<CotpDT, 3, 240>>
    ELSE IF r.func = 5 THEN IF r.item THEN <<CotpDT, 3, 5>> ELSE <<>>
    ELSE IF r.func = 4 THEN IF r.item THEN <<CotpDT, 3, 4>> ELSE <<>>
    ELSE IF r.func = 0
         THEN IF ~r.item THEN <<>>
              ELSE IF r.szl \in {17, 28, 305} THEN <<CotpDT, 7, 0>>
              ELSE <<CotpDT, 3, 129, 4>>
    ELSE <<>>

\* A reject branch that sends the DR without writing the record: a fault the
\* properties must detect.
S7HandleRejectUnlogged(model, r) ==
    IF r.cotp = CotpCR
    THEN IF r.slot \in ValidSlots(model)
         THEN Respond(<<CotpCC, r.src>>, <<CotpCC, r.src>>, <<"log", "send">>, FALSE)
         ELSE [Respond(<<CotpDR, r.src, 1>>, <<CotpDR, r.src, 1>>, <<"send">>, TRUE)
                  EXCEPT !.meta = "reject_connection"]
    ELSE IF r.cotp = CotpDT
    THEN IF r.hdr = "none" THEN Ignore
         ELSE IF r.hdr = "short" THEN Raise
         ELSE IF r.proto_id = 50 /\ r.rosctr \in {1, 7}
              THEN IF S7Job(r) # <<>>
                   THEN Respond(S7Job(r), S7Job(r), <<"log", "send">>, FALSE)
                   ELSE Ignore
              ELSE Ignore
    ELSE Ignore

\* S7PLC._handle_client, one round of the loop after the frame is read. A CC
\* and a DR are kept as <<type, destination reference>> and <<type,
\* destination reference, reason>>; the reference is the CR's source
\* reference. Nothing is remembered from one round to the next: a DT is
\* handled the same whether or not a CR came before it. A CR
\* whose Called TSAP names no valid slot is answered with a DR (reason 1),
\* logged and sent inside the branch, and the loop is left; every other
\* non-empty response_data is logged and sent at the end of the round; an
\* empty one is ignored.
S7Handle(model, r) ==
    IF r.cotp = CotpCR
    THEN IF r.slot \in ValidSlots(model)
         THEN Respond(<<CotpCC, r.src>>, <<CotpCC, r.src>>, <<"log", "send">>, FALSE)
         ELSE [Respond(<<CotpDR, r.src, 1>>, <<CotpDR, r.src, 1>>,
                       <<"log", "send">>, TRUE)
                  EXCEPT !.meta = "reject_connection"]
    ELSE IF r.cotp = CotpDT
    THEN IF r.hdr = "none" THEN Ignore
         ELSE IF r.hdr = "short" THEN Raise
         ELSE IF r.proto_id = 50 /\ r.rosctr \in {1, 7}
              THEN IF S7Job(r) # <<>>
                   THEN Respond(S7Job(r), S7Job(r), <<"log", "send">>, FALSE)
                   ELSE Ignore
              ELSE Ignore
    ELSE Ignore

Handle(proto, model, r) ==
    IF proto = "modbus" THEN ModbusHandle(r) ELSE S7Handle(model, r)

\* The frames a client may send.
MbFrame(unit, pdu) == [unit |-> unit, pdu |-> pdu]
ModbusFrames ==
    {MbFrame(1, <<3, 0, 2>>), MbFrame(1, <<3, 0, 200>>), MbFrame(1, <<6, 0, 7>>),
     MbFrame(1, <<8, 0, 0>>), MbFrame(9, <<3, 0, 2>>), MbFrame(1, <<131, 0, 1>>),
     MbFrame(9, <<131>>), MbFrame(1, <<>>)}

\* "src" is the source reference of a CR, "slot" the slot its Called TSAP
\* selects (-1: the CR carries no Called TSAP).
S7Frame(cotp, src, slot, hdr, rosctr, func, item, szl) ==
    [cotp |-> cotp, src |-> src, slot |-> slot, hdr |-> hdr, proto_id |-> 50,
     rosctr |-> rosctr, func |-> func, item |-> item, szl |-> szl]
S7Frames ==
    {S7Frame(CotpCR, 1, 2, "none", 0, 0, FALSE, 0),
     S7Frame(CotpCR, 2, 1, "none", 0, 0, FALSE, 0),
     S7Frame(CotpCR, 3, -1, "none", 0, 0, FALSE, 0),
     S7Frame(CotpDT, 0, 0, "full", 1, 240, TRUE, 0),
     S7Frame(CotpDT, 0, 0, "full", 1, 4, TRUE, 0),
     S7Frame(CotpDT, 0, 0, "full", 1, 5, TRUE, 0),
     S7Frame(CotpDT, 0, 0, "full", 7, 0, TRUE, 17),
     S7Frame(CotpDT, 0, 0, "full", 7, 0, TRUE, 36),
     S7Frame(CotpDT, 0, 0, "full", 1, 41, FALSE, 0),
     S7Frame(CotpDT, 0, 0, "short", 1, 4, FALSE, 0),
     S7Frame(CotpDR, 0, 0, "none", 0, 0, FALSE, 0)}

Frames(proto) == IF proto = "modbus" THEN ModbusFrames ELSE S7Frames

\* ---------------------------------------------------------------- the steps

NoBody == Cfg(NoId, <<>>, NoId)

Event(step, outcome, sent, reply, body, s, ran, gapv, fresh) ==
    [step |-> step, outcome |-> outcome, sent_id |-> sent, reply |-> reply,
     body |-> body, attempt |-> s.attempt, ran |-> ran, gap |-> gapv,
     after_reload |-> fresh, asked_id |-> NoId, error |-> s.error]

Idle(step) ==
    [step |-> step, outcome |-> "none", sent_id |-> NoId, reply |-> NoReply,
     body |-> NoBody, attempt |-> FALSE, ran |-> FALSE, gap |-> -1,
     after_reload |-> FALSE, asked_id |-> NoId, error |-> FALSE]

Install(s) ==
    /\ node_id' = s.node_id
    /\ config' = s.config
    /\ saved' = s.saved
    /\ plcs' = s.plcs
    /\ start_attempt_count' = s.count
    /\ last_start_attempt_time' = s.last

\* What a step of the agent does to the history variables.
Track(s) ==
    LET reset == \/ s.attempt /\ s.plcs # <<>>
                 \/ s.config.plcs # config.plcs
                 \/ s.node_id # node_id
    IN  /\ attemptsSinceReset' =
              IF reset THEN 0
              ELSE IF s.attempt THEN attemptsSinceReset + 1
              ELSE attemptsSinceReset
        /\ lastAttemptAt' = IF s.attempt THEN now ELSE lastAttemptAt
        /\ reloadPending' =
              IF s.attempt THEN FALSE
              ELSE IF s.config.plcs # config.plcs THEN TRUE
              ELSE reloadPending

Outcomes == {"ok", "non200", "fail"}

\* The TCP ports held by other processes of the host when devices are started.
BusyChoices == {{}, {102}}

\* NodeAgent._send_heartbeat against POST /api/heartbeat. "ok": answered 200;
\* "non200": answered with another status, nothing done by the server;
\* "fail": the request raises (connection refused, timeout). "busy" is read
\* only by a start of devices.
SendHeartbeat(outcome, busy) ==
    /\ pc = "hb"
    /\ LET srv == IF outcome = "ok"
                  THEN Heartbeat(agents, Hb(node_id, config), clock)
                  ELSE [agents |-> agents, reply |-> NoReply]
           reply == IF outcome = "ok" THEN srv.reply ELSE NoReply
           s == IF outcome = "ok"
                THEN OnHeartbeatReply(AgentState, reply, now, busy)
                ELSE IF outcome = "non200" THEN OnHeartbeatStatus(AgentState)
                ELSE OnHeartbeatError(AgentState)
       IN  /\ agents' = srv.agents
           /\ Install(s)
           /\ Track(s)
           /\ ev' = Event("hb", outcome, node_id, reply, config, s, plcs # <<>>,
                          IF s.attempt /\ lastAttemptAt # -1
                          THEN now - lastAttemptAt ELSE -1,
                          s.attempt /\ reloadPending)
           /\ renamePending' = IF outcome = "ok" THEN NoId ELSE renamePending
    /\ pc' = "fetch"
    /\ UNCHANGED <<srvLogs, ops, logs, phase, now, upload, acked, clock>>
    /\ UNCHANGED wireVars
    /\ UNCHANGED devVars

\* NodeAgent._fetch_config against GET /api/config/{node_id}; an unknown
\* node_id is answered 404. In the wait loop of start() the fetch is followed
\* by the test of config["plcs"] that leaves the loop.
FetchConfig(outcome) ==
    /\ pc = "fetch"
    /\ outcome \in {"ok", "fail"}
    /\ LET found == outcome = "ok" /\ Registered(agents, node_id)
           body == IF found THEN agents[node_id].config ELSE NoBody
           s == IF found THEN OnConfig(AgentState, body) ELSE AgentState
       IN  /\ Install(s)
           /\ Track(s)
           /\ ev' = Event("fetch",
                          IF outcome = "ok" /\ ~found THEN "non200" ELSE outcome,
                          node_id, NoReply, body, s, plcs # <<>>, -1, FALSE)
           /\ IF phase = "boot"
              THEN IF s.config.plcs # <<>>
                   THEN phase' = "sync" /\ pc' = "hb"
                   ELSE phase' = "boot" /\ pc' = "sleep"
              ELSE phase' = "sync" /\ pc' = "upload"
    /\ UNCHANGED <<agents, srvLogs, ops, logs, now, renamePending, upload, acked, clock>>
    /\ UNCHANGED wireVars
    /\ UNCHANGED devVars

\* NodeAgent._upload_logs against POST /api/logs
UploadLogs(outcome) ==
    /\ pc = "upload"
    /\ outcome \in {"ok", "fail"}
    /\ LET batch == GetLogs(logs, UploadBatch)
       IN  IF batch # <<>> /\ outcome = "ok"
           THEN /\ srvLogs' = InsertLogs(srvLogs, node_id, batch)
                /\ logs' = MarkUploaded(logs, batch)
           ELSE UNCHANGED <<srvLogs, logs>>
    /\ pc' = "sleep"
    /\ ev' = Idle("upload")
    /\ UNCHANGED <<agents, ops, node_id, config, saved, plcs, start_attempt_count,
                   last_start_attempt_time, phase, now,
                   renamePending, reloadPending, attemptsSinceReset, lastAttemptAt,
                   upload, acked, clock>>
    /\ UNCHANGED wireVars
    /\ UNCHANGED devVars

\* time.sleep(5)
Sleep ==
    /\ pc = "sleep"
    /\ now + SyncInterval <= MaxTime
    /\ now' = now + SyncInterval
    /\ pc' = "hb"
    /\ ev' = Idle("sleep")
    /\ UNCHANGED <<agents, srvLogs, ops, node_id, config, saved, plcs,
                   start_attempt_count, last_start_attempt_time, logs, phase,
                   renamePending, reloadPending, attemptsSinceReset, lastAttemptAt,
                   upload, acked, clock>>
    /\ UNCHANGED wireVars
    /\ UNCHANGED devVars

agentVars == <<node_id, config, saved, plcs, start_attempt_count,
               last_start_attempt_time, logs, phase, pc, now,
               reloadPending, attemptsSinceReset, lastAttemptAt, upload, acked>>

\* POST /api/agents/{node_id}/toggle
OpToggle(id, active) ==
    /\ ops < MaxOps
    /\ id \in DOMAIN agents
    /\ agents' = ToggleAgentActive(agents, id, active)
    /\ ops' = ops + 1
    /\ ev' = Idle("toggle")
    /\ UNCHANGED <<srvLogs, renamePending>>
    /\ UNCHANGED <<agentVars, clock>>
    /\ UNCHANGED wireVars
    /\ UNCHANGED devVars

\* DELETE /api/agents/{node_id}
OpDelete(id) ==
    /\ ops < MaxOps
    /\ id \in DOMAIN agents
    /\ agents' = DeleteAgent(agents, id)
    /\ ops' = ops + 1
    /\ ev' = Idle("delete")
    /\ renamePending' = NoId
    /\ UNCHANGED srvLogs
    /\ UNCHANGED <<agentVars, clock>>
    /\ UNCHANGED wireVars
    /\ UNCHANGED devVars

\* POST /api/update_agent_config: the dashboard posts the agent's stored
\* config with the edited device list, and new_node_id when the id is edited.
OpUpdateConfig(cur, new, raw) ==
    /\ ops < MaxOps
    /\ cur \in DOMAIN agents
    /\ LET r == UpdateAgentConfig(agents, srvLogs, cur, new,
                                  [agents[cur].config EXCEPT !.plcs = raw], NoName)
       IN  /\ agents' = r.agents
           /\ srvLogs' = r.logs
           /\ ev' = [Idle("update") EXCEPT !.outcome = r.status, !.sent_id = cur,
                                          !.asked_id = new,
                                          !.reply.new_node_id = r.new_node_id]
           /\ renamePending' =
                 IF r.status = "updated" /\ new # NoId /\ new # cur
                 THEN IF cur = node_id THEN new ELSE NoId
                 ELSE renamePending
    /\ ops' = ops + 1
    /\ UNCHANGED <<agentVars, clock>>
    /\ UNCHANGED wireVars
    /\ UNCHANGED devVars

\* --------------------------------------------------- one device connection

\* Frames the client may send over the connections of a run (bound).
MaxReq == 3

NoFrame == [seq |-> 0]
\* "cc" records whether a CC has been sent on the connection.
NoConn == [proto |-> "none", model |-> "none", pc |-> "idle",
           req |-> NoFrame, h |-> Ignore, cc |-> FALSE]

\* finally: client_sock.close(), the handler thread ends
Closed == [NoConn EXCEPT !.pc = "closed"]

\* The end of a round of the handler loop: break or back to recv.
EndRound(c) ==
    IF c.h.close THEN Closed
    ELSE [c EXCEPT !.pc = "recv", !.req = NoFrame, !.h = Ignore]

\* A round that ends after its first step: a fault the properties must detect.
AdvanceEndsRound(c) == EndRound(c)
\* The step at the head of the round is done.
Advance(c) ==
    IF Tail(c.h.steps) = <<>> THEN EndRound(c)
    ELSE [c EXCEPT !.h.steps = Tail(@)]

\* The devices a client can connect to: a ModbusPLC and S7PLCs of two models.
Devices ==
    {[proto |-> "modbus", model |-> "Simulated Modbus Device"],
     [proto |-> "s7comm", model |-> "S7-300"],
     [proto |-> "s7comm", model |-> "S7-1200"]}

\* _run_server: accept() and a handler thread for the connection
Accept(dev) ==
    /\ conn.pc \in {"idle", "closed"}
    /\ reqs < MaxReq
    /\ conn' = [NoConn EXCEPT !.proto = dev.proto, !.model = dev.model, !.pc = "recv"]
    /\ UNCHANGED <<wire, reqs, accepted, logs>>
    /\ UNCHANGED ctlVars
    /\ UNCHANGED devVars

\* _handle_client: recv of one frame, parsing, and the response built for it
Recv(f) ==
    /\ conn.pc = "recv"
    /\ reqs < MaxReq
    /\ f \in Frames(conn.proto)
    /\ LET r == [seq |-> reqs + 1] @@ f
           h == Handle(conn.proto, conn.model, r)
       IN  /\ conn' = IF h.outcome = "raise" THEN Closed
                       ELSE IF h.outcome = "ignore" THEN conn
                       ELSE [conn EXCEPT !.req = r, !.h = h, !.pc = "round"]
           /\ accepted' = IF h.outcome = "respond"
                          THEN accepted \cup {r.seq} ELSE accepted
    /\ reqs' = reqs + 1
    /\ UNCHANGED <<wire, logs>>
    /\ UNCHANGED ctlVars
    /\ UNCHANGED devVars

\* self.db.log_interaction(attacker_ip, protocol, full_request, response, meta)
LogStep ==
    /\ conn.pc = "round"
    /\ Head(conn.h.steps) = "log"
    /\ logs' = LogInteraction(logs, conn.proto, conn.req, conn.h.logged, conn.h.meta)
    /\ conn' = Advance(conn)
    /\ UNCHANGED <<wire, reqs, accepted>>
    /\ UNCHANGED ctlVars
    /\ UNCHANGED devVars

\* client_sock.send(response); a send on a connection the client has reset
\* raises, which ends the handler.
SendStep(delivered) ==
    /\ conn.pc = "round"
    /\ Head(conn.h.steps) = "send"
    /\ IF delivered
       THEN /\ wire' = Append(wire, [proto |-> conn.proto, model |-> conn.model,
                                      connected |-> conn.cc,
                                      request |-> conn.req,
                                      response |-> conn.h.response])
            /\ conn' = Advance([conn EXCEPT !.cc =
                                   @ \/ (conn.proto = "s7comm"
                                         /\ Head(conn.h.response) = CotpCC)])
       ELSE /\ wire' = wire
            /\ conn' = Closed
    /\ UNCHANGED <<reqs, accepted, logs>>
    /\ UNCHANGED ctlVars
    /\ UNCHANGED devVars

\* recv returns b"" (the client closed) or, for S7, times out after 30 s
ClientGone ==
    /\ conn.pc = "recv"
    /\ conn' = Closed
    /\ UNCHANGED <<wire, reqs, accepted, logs>>
    /\ UNCHANGED ctlVars
    /\ UNCHANGED devVars

\* A Python dict as the set of its items. A key is a str or an int: "0" and
\* 0 are different keys.
StrKey(n) == [kind |-> "str", n |-> n]
IntKey(n) == [kind |-> "int", n |-> n]
Item(key, val) == [key |-> key, val |-> val]
HasKey(d, key) == \E e \in d : e.key = key
DictGet(d, key) == (CHOOSE e \in d : e.key = key).val
DictSet(d, key, val) == {e \in d : e.key # key} \cup {Item(key, val)}

\* The profile file "water_treatment" as json.load returns it: the "s7"
\* section with data block "1" and the markers, the "modbus" section with its
\* registers. An entry is kept as the name of its waveform.
WaterTreatment ==
    [s7 |-> [db |-> {Item(StrKey(1), {Item(StrKey(0), "sine")})},
             m |-> {Item(StrKey(0), "status_flags")}],
     modbus |-> [registers |-> {Item(IntKey(0), "sine")}]]

\* no tick and no FC3 round in progress: the tick thread sleeps, no lock is
\* held, no handler is inside _handle_modbus_function
NoRace == [mutex |-> "free", tick |-> "sleep", bits |-> 0,
           fc3 |-> "idle", conn |-> 0, i |-> 0, resp_data |-> <<>>]

\* ModbusPLC.__init__ / S7PLC.__init__: running = False, sock = None,
\* thread = None. "port" tells whether a socket of the device is bound to
\* its port, "handlers" holds the connections whose handler thread is in its
\* loop, "old" those of them accepted before a stop(), "stops" counts the
\* calls of stop().
Unstarted == [running |-> FALSE, sock |-> "None", thread |-> "None",
              port |-> "free", handlers |-> {}, old |-> {}, stops |-> 0]

\* the images of devices that have just been constructed
DevAtRest ==
    /\ storage = [s7comm |-> S7Storage, modbus |-> NoEntries]
    /\ race = NoRace
    /\ life = Unstarted
    /\ store = WaterTreatment
    /\ hist = <<>>

WireAtRest ==
    /\ conn = NoConn
    /\ wire = <<>>
    /\ reqs = 0
    /\ accepted = {}

Init ==
    /\ agents \in {[i \in {} |-> NoBody]}
                  \cup {[i \in {"X"} |-> Row("Agent X", TRUE, Cfg("X", p, NoId), 0)] :
                            p \in {RawS7}}
    /\ srvLogs = <<>>
    /\ ops = 0
    /\ clock = BootTime
    /\ node_id = "X"
    /\ \E p \in LocalChoices : config = Cfg("X", p, NoId)
    /\ saved = config
    /\ plcs = <<>>
    /\ start_attempt_count = 0
    /\ last_start_attempt_time = 0
    /\ logs = <<>>
    /\ phase = IF config.plcs = <<>> THEN "boot" ELSE "sync"
    /\ pc = "hb"
    /\ now = BootTime
    /\ ev = Idle("init")
    /\ renamePending = NoId
    /\ reloadPending = FALSE
    /\ attemptsSinceReset = 0
    /\ lastAttemptAt = -1
    /\ upload = <<>>
    /\ acked = {}
    /\ WireAtRest
    /\ DevAtRest

Next ==
    \/ \E o \in Outcomes, busy \in BusyChoices : SendHeartbeat(o, busy)
    \/ \E o \in Outcomes : FetchConfig(o)
    \/ \E o \in Outcomes : UploadLogs(o)
    \/ Sleep
    \/ \E id \in Ids, b \in BOOLEAN : OpToggle(id, b)
    \/ \E id \in Ids : OpDelete(id)
    \/ \E cur \in Ids : \E new \in (Ids \ {cur}) \cup {NoId}, raw \in RawChoices :
          OpUpdateConfig(cur, new, raw)

Spec == Init /\ [][Next]_vars

\* A node whose devices have been started.
RunningNode ==
    /\ agents = [i \in {"X"} |-> Row("Agent X", TRUE, Cfg("X", RawS7, NoId), 0)]
    /\ srvLogs = <<>>
    /\ ops = 0
    /\ clock = BootTime
    /\ node_id = "X"
    /\ config = Cfg("X", RawS7, NoId)
    /\ saved = config
    /\ plcs = StartPlcs(config.plcs, {})
    /\ start_attempt_count = 0
    /\ last_start_attempt_time = BootTime
    /\ logs = <<>>
    /\ phase = "sync"
    /\ pc = "fetch"
    /\ now = BootTime
    /\ ev = Idle("init")
    /\ renamePending = NoId
    /\ reloadPending = FALSE
    /\ attemptsSinceReset = 0
    /\ lastAttemptAt = BootTime
    /\ upload = <<>>
    /\ acked = {}

\* A node whose devices have been started, and the clients of its devices.
InitWire ==
    /\ RunningNode
    /\ WireAtRest
    /\ DevAtRest

NextWire ==
    \/ \E dev \in Devices : Accept(dev)
    \/ \E f \in ModbusFrames \cup S7Frames : Recv(f)
    \/ LogStep
    \/ \E delivered \in BOOLEAN : SendStep(delivered)
    \/ ClientGone

SpecWire == InitWire /\ [][NextWire]_vars

\* ------------------------------------------------- the log database in use
\* _upload_logs one statement at a time, with the handler threads of the
\* devices writing records while an upload is in progress, and the agent
\* process restarted on the database file it left behind.

\* Records written by the handler threads during a run (bound).
MaxAppends == 2
\* Sync ticks of a run that starts with records left to upload (bound).
LogTicks == 2

\* response.status_code == 200
AcknowledgedAlways(outcome) == TRUE
Acknowledged(outcome) == outcome = "ok"

\* LogDB._init_db on a database file: CREATE TABLE IF NOT EXISTS, then ALTER
\* TABLE ADD COLUMN uploaded. With the column present the ALTER raises
\* OperationalError and the UPDATE after it is skipped; on a table of the
\* older layout the column is added and every row is marked uploaded.
InitDbMarksAll(l, hasUploaded) == [i \in DOMAIN l |-> [l[i] EXCEPT !.uploaded = TRUE]]
InitDb(l, hasUploaded) ==
    IF hasUploaded THEN l
    ELSE [i \in DOMAIN l |-> [l[i] EXCEPT !.uploaded = TRUE]]

\* ConfigLoader.load_config: the file if it is valid, else the default config
\* (a fresh pending id, no devices).
LoadConfig(file) ==
    IF ValidateConfig(CleanConfig(file))
    THEN NormalizeConfig(CleanConfig(file))
    ELSE Cfg("pending", <<>>, NoId)

\* The record of a connection request answered with a CC.
CrFrame == [seq |-> 0] @@ S7Frame(CotpCR, 1, 2, "none", 0, 0, FALSE, 0)

\* n records left in the database by the devices of an earlier run.
RECURSIVE Backlog(_)
Backlog(n) ==
    IF n = 0 THEN <<>>
    ELSE LogInteraction(Backlog(n - 1), "s7comm", CrFrame, <<CotpCC, CrFrame.src>>, "none")

\* A handler thread of a listening device: self.db.log_interaction(...)
HandlerLogs ==
    /\ \E i \in DOMAIN plcs : plcs[i].listening
    /\ Len(logs) < UploadBatch + 1 + MaxAppends
    /\ logs' = LogInteraction(logs, "s7comm", CrFrame, <<CotpCC, CrFrame.src>>, "none")
    /\ UNCHANGED <<wire, reqs, accepted, conn>>
    /\ UNCHANGED ctlVars
    /\ UNCHANGED devVars

\* _upload_logs: logs = self.db.get_logs(limit=10); if logs: ...
UploadFetch ==
    /\ pc = "upload"
    /\ upload' = GetLogs(logs, UploadBatch)
    /\ pc' = IF upload' = <<>> THEN "sleep" ELSE "post"
    /\ ev' = Idle("get_logs")
    /\ UNCHANGED <<agents, srvLogs, ops, node_id, config, saved, plcs,
                   start_attempt_count, last_start_attempt_time, logs, phase, now,
                   renamePending, reloadPending, attemptsSinceReset, lastAttemptAt,
                   acked, clock>>
    /\ UNCHANGED wireVars
    /\ UNCHANGED devVars

UploadOutcomes == {"ok", "non200", "lost", "fail"}

\* _upload_logs: requests.post(.../api/logs) and, on status 200,
\* self.db.mark_uploaded(log_ids). "lost": the server stored the rows and its
\* answer did not arrive within the timeout, so the post raises.
UploadPost(outcome) ==
    /\ pc = "post"
    /\ srvLogs' = IF outcome \in {"ok", "lost"}
                  THEN InsertLogs(srvLogs, node_id, upload) ELSE srvLogs
    /\ logs' = IF outcome \in {"ok", "non200"} /\ Acknowledged(outcome)
               THEN MarkUploaded(logs, upload) ELSE logs
    /\ acked' = IF outcome = "ok"
                THEN acked \cup {upload[j].id : j \in DOMAIN upload} ELSE acked
    /\ upload' = <<>>
    /\ pc' = "sleep"
    /\ ev' = [Idle("post") EXCEPT !.outcome = outcome]
    /\ UNCHANGED <<agents, ops, node_id, config, saved, plcs,
                   start_attempt_count, last_start_attempt_time, phase, now,
                   renamePending, reloadPending, attemptsSinceReset, lastAttemptAt,
                   clock>>
    /\ UNCHANGED wireVars
    /\ UNCHANGED devVars

\* The agent process is ended and run again: NodeAgent.__init__ loads the
\* config file, opens the log database and starts with no device; start()
\* enters the wait loop when the config lists no device.
Restart ==
    /\ ops < MaxOps
    /\ ops' = ops + 1
    /\ config' = LoadConfig(saved)
    /\ node_id' = config'.node_id
    /\ logs' = InitDb(logs, TRUE)
    /\ plcs' = <<>>
    /\ start_attempt_count' = 0
    /\ last_start_attempt_time' = 0
    /\ phase' = IF config'.plcs = <<>> THEN "boot" ELSE "sync"
    /\ pc' = "hb"
    /\ upload' = <<>>
    /\ ev' = Idle("restart")
    /\ reloadPending' = FALSE
    /\ attemptsSinceReset' = 0
    /\ lastAttemptAt' = -1
    /\ UNCHANGED <<agents, srvLogs, saved, now, renamePending, acked, clock>>
    /\ UNCHANGED wireVars
    /\ UNCHANGED devVars

InitLogs ==
    /\ agents = [i \in {"X"} |-> Row("Agent X", TRUE, Cfg("X", RawS7, NoId), 0)]
    /\ srvLogs = <<>>
    /\ ops = 0
    /\ clock = BootTime
    /\ node_id = "X"
    /\ config = Cfg("X", RawS7, NoId)
    /\ saved = config
    /\ plcs = StartPlcs(config.plcs, {})
    /\ start_attempt_count = 0
    /\ last_start_attempt_time = BootTime
    /\ logs = Backlog(UploadBatch + 1)
    /\ phase = "sync"
    /\ pc = "fetch"
    /\ now = MaxTime - LogTicks * SyncInterval
    /\ ev = Idle("init")
    /\ renamePending = NoId
    /\ reloadPending = FALSE
    /\ attemptsSinceReset = 0
    /\ lastAttemptAt = BootTime
    /\ upload = <<>>
    /\ acked = {}
    /\ WireAtRest
    /\ DevAtRest

NextLogs ==
    \/ \E o \in {"ok", "fail"} : SendHeartbeat(o, {})
    \/ \E o \in {"ok", "fail"} : FetchConfig(o)
    \/ UploadFetch
    \/ \E o \in UploadOutcomes : UploadPost(o)
    \/ Sleep
    \/ HandlerLogs
    \/ \E raw \in {RawOff, RawS7} : OpUpdateConfig("X", NoId, raw)
    \/ Restart

SpecLogs == InitLogs /\ [][NextLogs]_vars

\* ------------------------------------------------- the server's endpoints
\* The server called by any agent and by the dashboard, in any order.

\* Rows of the logs table (bound).
MaxRows == 2
\* Steps of the server's clock (bound).
SrvTicks == 1

\* The configs a heartbeat may carry.
HbConfigs(id) == {Cfg(id, RawEmpty, NoId), Cfg(id, RawS7, NoId)}

\* POST /api/heartbeat from the agent that runs under node_id id
ClientHeartbeat(id, cfg) ==
    /\ LET r == Heartbeat(agents, Hb(id, cfg), clock)
       IN  /\ agents' = r.agents
           /\ ev' = [Idle("hb") EXCEPT !.outcome = "ok", !.sent_id = id,
                                      !.reply = r.reply, !.body = cfg]
    /\ UNCHANGED <<srvLogs, ops, renamePending>>
    /\ UNCHANGED <<agentVars, clock>>
    /\ UNCHANGED wireVars
    /\ UNCHANGED devVars

\* POST /api/logs from that agent, with one record
ClientLogs(id) ==
    /\ Len(srvLogs) < MaxRows
    /\ srvLogs' = InsertLogs(srvLogs, id, Backlog(1))
    /\ ev' = [Idle("logs") EXCEPT !.sent_id = id]
    /\ UNCHANGED <<agents, ops, renamePending>>
    /\ UNCHANGED <<agentVars, clock>>
    /\ UNCHANGED wireVars
    /\ UNCHANGED devVars

\* POST /api/agents: the operator adds an agent by hand
OpAdd(id) ==
    /\ ops < MaxOps
    /\ agents' = RegisterAgent(agents, id, "Agent " \o id, Cfg(id, RawS7, NoId), clock)
    /\ ops' = ops + 1
    /\ ev' = [Idle("add") EXCEPT !.sent_id = id]
    /\ renamePending' = NoId
    /\ UNCHANGED srvLogs
    /\ UNCHANGED <<agentVars, clock>>
    /\ UNCHANGED wireVars
    /\ UNCHANGED devVars

\* datetime.now() of the server moves on
ServerTick ==
    /\ clock + SyncInterval <= BootTime + SrvTicks * SyncInterval
    /\ clock' = clock + SyncInterval
    /\ ev' = Idle("tick")
    /\ UNCHANGED <<agents, srvLogs, ops, renamePending>>
    /\ UNCHANGED agentVars
    /\ UNCHANGED wireVars
    /\ UNCHANGED devVars

InitServer ==
    /\ agents = [i \in {} |-> NoBody]
    /\ srvLogs = <<>>
    /\ ops = 0
    /\ clock = BootTime
    /\ node_id = "X"
    /\ config = Cfg("X", RawEmpty, NoId)
    /\ saved = config
    /\ plcs = <<>>
    /\ start_attempt_count = 0
    /\ last_start_attempt_time = 0
    /\ logs = <<>>
    /\ phase = "boot"
    /\ pc = "hb"
    /\ now = BootTime
    /\ ev = Idle("init")
    /\ renamePending = NoId
    /\ reloadPending = FALSE
    /\ attemptsSinceReset = 0
    /\ lastAttemptAt = -1
    /\ upload = <<>>
    /\ acked = {}
    /\ WireAtRest
    /\ DevAtRest

NextServer ==
    \/ \E id \in Ids : \E cfg \in HbConfigs(id) : ClientHeartbeat(id, cfg)
    \/ \E id \in Ids : ClientLogs(id)
    \/ \E id \in Ids : OpAdd(id)
    \/ \E id \in Ids, b \in BOOLEAN : OpToggle(id, b)
    \/ \E id \in Ids : OpDelete(id)
    \/ \E cur \in Ids : \E new \in (Ids \ {cur}) \cup {NoId}, raw \in {RawS7, RawEmpty} :
          OpUpdateConfig(cur, new, raw)
    \/ ServerTick

SpecServer == InitServer /\ [][NextServer]_vars

\* ------------------------------------------------ the memory images in use
\* Requests of clients and passes of the simulation on the image of one
\* device. A handler round is one step: it reads the frame, reads or writes
\* the image, writes the record and sends the response.

\* Requests and ticks of a run (bound).
MaxMemOps == 3

\* the connections of the clients
Conns == {1, 2}

\* an area code that is none of DB, M, I, Q: the counters
AreaC == 28

\* The Write Var requests drawn: the item count and the items sent.
S7Writes ==
    {[count |-> 1, items |-> <<WriteItem(AreaDB, 1, 0, <<222, 173>>)>>],
     [count |-> 1, items |-> <<WriteItem(AreaM, 0, FixedSize - 1, <<222, 173>>)>>],
     [count |-> 1, items |-> <<WriteItem(AreaC, 0, 0, <<190>>)>>],
     [count |-> 2, items |-> <<WriteItem(AreaM, 0, 0, <<190>>),
                               WriteItem(AreaM, 0, 1, <<239>>)>>]}

\* The Read Var requests drawn: one item each, byte transport.
S7Reads ==
    {[count |-> 1, item |-> ReadItem(2, 2, AreaDB, 1, 0)],
     [count |-> 1, item |-> ReadItem(2, 2, AreaM, 0, FixedSize - 1)],
     [count |-> 1, item |-> ReadItem(2, 1, AreaC, 0, 0)],
     [count |-> 1, item |-> ReadItem(2, 1, AreaM, 0, 0)],
     [count |-> 1, item |-> ReadItem(2, 1, AreaM, 0, 1)]}

\* the values the simulated entry takes at the ticks of a run
S7SimValues == {300, 500}

\* One entry of the history.
Done(op, c, request, raised, response) ==
    [op |-> op, conn |-> c, request |-> request, raised |-> raised,
     response |-> response]

\* the record a handler writes for a request it answers
Record(l, protocol, request, r) ==
    IF r.raised \/ r.response = <<>> THEN l
    ELSE LogInteraction(l, protocol, request, r.response, "none")

\* _handle_client of an S7PLC: a round for a Write Var
S7Write(c, w) ==
    /\ Len(hist) < MaxMemOps
    /\ LET r == S7WriteVar(storage.s7comm, w.count, w.items)
       IN  /\ storage' = [storage EXCEPT !.s7comm = r.storage]
           /\ hist' = Append(hist, Done("write", c, w, r.raised, r.response))
           /\ logs' = Record(logs, "s7comm", w, r)
    /\ UNCHANGED <<race, life>>
    /\ UNCHANGED store
    /\ UNCHANGED ctlVars
    /\ UNCHANGED wireVars

\* _handle_client of an S7PLC: a round for a Read Var
S7Read(c, q) ==
    /\ Len(hist) < MaxMemOps
    /\ LET r == S7ReadVar(storage.s7comm, q.count, q.item)
       IN  /\ storage' = [storage EXCEPT !.s7comm = r.storage]
           /\ hist' = Append(hist, Done("read", c, q, r.raised, r.response))
           /\ logs' = Record(logs, "s7comm", q, r)
    /\ UNCHANGED <<race, life>>
    /\ UNCHANGED store
    /\ UNCHANGED ctlVars
    /\ UNCHANGED wireVars

\* _run_simulation: one pass of the loop
S7Tick(value) ==
    /\ Len(hist) < MaxMemOps
    /\ storage' = [storage EXCEPT !.s7comm = S7Simulate(@, value)]
    /\ hist' = Append(hist, Done("tick", 0, [value |-> value], FALSE, <<>>))
    /\ UNCHANGED logs
    /\ UNCHANGED <<race, life>>
    /\ UNCHANGED store
    /\ UNCHANGED ctlVars
    /\ UNCHANGED wireVars

InitS7Mem ==
    /\ RunningNode
    /\ WireAtRest
    /\ DevAtRest

NextS7Mem ==
    \/ \E w \in S7Writes : S7Write(1, w)
    \/ \E c \in Conns, q \in S7Reads : S7Read(c, q)
    \/ \E value \in S7SimValues : S7Tick(value)

SpecS7Mem == InitS7Mem /\ [][NextS7Mem]_vars

\* The Modbus frames drawn: writes and reads of unit 1, a write to a unit that
\* is not mapped, and frames on which the handler raises.
MemWrites ==
    {MbFrame(1, <<6, 10, 9>>), MbFrame(1, <<6, 5000, 2020>>),
     MbFrame(1, <<5, 5, 0>>), MbFrame(1, <<5, 5, 65280>>),
     MbFrame(9, <<6, 10, 9>>), MbFrame(9, <<131, 10, 9>>)}
MemReads ==
    {MbFrame(1, <<3, 10, 1>>), MbFrame(1, <<3, 5000, 1>>),
     MbFrame(1, <<3, 20, 2>>), MbFrame(1, <<1, 5, 1>>)}

\* _handle_client of a ModbusPLC: a round for a frame with a function code
MbRequest(c, f) ==
    /\ Len(hist) < MaxMemOps
    /\ LET r == ModbusResponse(storage.modbus, f)
           done == [raised |-> r.raised, response |-> r.pdu]
       IN  /\ storage' = [storage EXCEPT !.modbus = r.storage]
           /\ hist' = Append(hist, Done("modbus", c, f, r.raised, r.pdu))
           /\ logs' = Record(logs, "modbus", f, done)
    /\ UNCHANGED <<race, life>>
    /\ UNCHANGED store
    /\ UNCHANGED ctlVars
    /\ UNCHANGED wireVars

\* The simulation tick of the device: update_storage for its unit.
MbTick(gen) ==
    /\ Len(hist) < MaxMemOps
    /\ storage' = [storage EXCEPT !.modbus = UpdateStorage(@, 1, gen, "False")]
    /\ hist' = Append(hist, Done("tick", 0, [value |-> gen], FALSE, <<>>))
    /\ UNCHANGED logs
    /\ UNCHANGED <<race, life>>
    /\ UNCHANGED store
    /\ UNCHANGED ctlVars
    /\ UNCHANGED wireVars

\* The image has been initialized by a first update_storage.
InitMbMem ==
    /\ RunningNode
    /\ WireAtRest
    /\ \E gen \in FloatChoices :
          storage = [s7comm |-> S7Storage,
                     modbus |-> UpdateStorage(NoEntries, 1, gen, "False")]
    /\ race = NoRace
    /\ life = Unstarted
    /\ store = WaterTreatment
    /\ hist = <<>>

NextMbMem ==
    \/ \E f \in MemWrites : MbRequest(1, f)
    \/ \E c \in Conns, f \in MemReads : MbRequest(c, f)
    \/ \E gen \in FloatChoices : MbTick(gen)

SpecMbMem == InitMbMem /\ [][NextMbMem]_vars

\* ------------------------------------------- a tick and a read, interleaved

\* the float32 entry of the profile, and the FC3 request for its two registers
FloatEntry == HoldingRegisters[2]
FloatRead == MbFrame(1, <<3, FloatEntry.addr, 2>>)

\* The tick loop of the device wakes up and takes the mutex of the memory
\* image before it calls update_storage.
TickBegin(gen) ==
    /\ Len(hist) < MaxMemOps
    /\ race.tick = "sleep" /\ race.mutex = "free"
    /\ race' = [race EXCEPT !.mutex = "tick", !.tick = "half1", !.bits = gen]
    /\ UNCHANGED <<storage, life, hist, logs>>
    /\ UNCHANGED store
    /\ UNCHANGED ctlVars
    /\ UNCHANGED wireVars

\* update_storage: storage[unit_id]['holding_registers'][addr] = regs[0]
TickHalf1 ==
    /\ race.tick = "half1"
    /\ storage' = [storage EXCEPT !.modbus[1].holding_registers =
                       Put(@, FloatEntry.addr, EncodeFloat32(race.bits)[1])]
    /\ race' = [race EXCEPT !.tick = "half2"]
    /\ UNCHANGED <<life, hist, logs>>
    /\ UNCHANGED store
    /\ UNCHANGED ctlVars
    /\ UNCHANGED wireVars

\* update_storage: storage[unit_id]['holding_registers'][addr + 1] = regs[1]
\* and the statements after it; back in the tick loop the mutex is released.
TickHalf2 ==
    /\ race.tick = "half2"
    /\ storage' = [storage EXCEPT !.modbus = UpdateStorage(@, 1, race.bits, "False")]
    /\ race' = [race EXCEPT !.mutex = "free", !.tick = "sleep"]
    /\ hist' = Append(hist, Done("tick", 0, [value |-> race.bits], FALSE, <<>>))
    /\ UNCHANGED <<life, logs>>
    /\ UNCHANGED store
    /\ UNCHANGED ctlVars
    /\ UNCHANGED wireVars

\* _handle_modbus_function, FC3 for the two registers of the float entry, on
\* the handler thread of connection c: resp_data = b"". No lock is taken.
Fc3Begin(c) ==
    /\ Len(hist) < MaxMemOps
    /\ race.fc3 = "idle"
    /\ race' = [race EXCEPT !.fc3 = "loop", !.conn = c, !.i = 0, !.resp_data = <<>>]
    /\ UNCHANGED <<storage, life, hist, logs>>
    /\ UNCHANGED store
    /\ UNCHANGED ctlVars
    /\ UNCHANGED wireVars

\* one pass of "for i in range(quantity)": a register is read and packed
Fc3Reg ==
    /\ race.fc3 = "loop" /\ race.i < FloatRead.pdu[3]
    /\ LET val == Get(storage.modbus[1].holding_registers,
                      FloatRead.pdu[2] + race.i, 0)
       IN  race' = [race EXCEPT !.i = @ + 1,
                                !.resp_data = @ \o <<val \div 256, val % 256>>]
    /\ UNCHANGED <<storage, life, hist, logs>>
    /\ UNCHANGED store
    /\ UNCHANGED ctlVars
    /\ UNCHANGED wireVars

\* return struct.pack('BB', func_code, byte_count) + resp_data, and the rest
\* of the handler's round
Fc3Return ==
    /\ race.fc3 = "loop" /\ race.i = FloatRead.pdu[3]
    /\ LET r == [raised |-> FALSE,
                 response |-> <<3, 2 * FloatRead.pdu[3]>> \o race.resp_data]
       IN  /\ hist' = Append(hist, Done("modbus", race.conn, FloatRead,
                                        r.raised, r.response))
           /\ logs' = Record(logs, "modbus", FloatRead, r)
    /\ race' = [race EXCEPT !.fc3 = "idle", !.conn = 0, !.i = 0, !.resp_data = <<>>]
    /\ UNCHANGED <<storage, life>>
    /\ UNCHANGED store
    /\ UNCHANGED ctlVars
    /\ UNCHANGED wireVars

NextRace ==
    \/ \E gen \in FloatChoices : TickBegin(gen)
    \/ TickHalf1
    \/ TickHalf2
    \/ \E c \in Conns : Fc3Begin(c)
    \/ Fc3Reg
    \/ Fc3Return

SpecRace == InitMbMem /\ [][NextRace]_vars

\* ------------------------------------------------- a device's life cycle

\* calls of stop() in a run (bound)
MaxStops == 2

\* the requests the clients of the device send
LifeFrames == {MbFrame(1, <<6, 10, 9>>), MbFrame(1, <<3, 10, 1>>)}

\* start(): self.running = True and the accept thread is started
Start ==
    /\ life.thread = "None"
    /\ life' = [life EXCEPT !.running = TRUE, !.thread = "started"]
    /\ UNCHANGED <<storage, race, hist, logs>>
    /\ UNCHANGED store
    /\ UNCHANGED ctlVars
    /\ UNCHANGED wireVars

\* _run_server: self.sock = socket.socket(...), bind, listen
RunServerListen ==
    /\ life.thread = "started"
    /\ life' = [life EXCEPT !.sock = "open", !.port = "held", !.thread = "loop"]
    /\ UNCHANGED <<storage, race, hist, logs>>
    /\ UNCHANGED store
    /\ UNCHANGED ctlVars
    /\ UNCHANGED wireVars

\* _run_server: "while self.running:" and, when it holds, the call of accept
LoopTest ==
    /\ life.thread = "loop"
    /\ life' = [life EXCEPT !.thread = IF life.running THEN "accept" ELSE "done"]
    /\ UNCHANGED <<storage, race, hist, logs>>
    /\ UNCHANGED store
    /\ UNCHANGED ctlVars
    /\ UNCHANGED wireVars

\* _run_server: accept returns a connection and its handler thread is
\* started. An accept that was still in progress on a socket closed
\* meanwhile gives up the port when it returns.
AcceptClient(c) ==
    /\ life.thread = "accept" /\ life.port = "held"
    /\ c \notin life.handlers
    /\ life' = [life EXCEPT !.handlers = @ \cup {c}, !.thread = "loop",
                            !.port = IF life.sock = "closed" THEN "free" ELSE @]
    /\ UNCHANGED <<storage, race, hist, logs>>
    /\ UNCHANGED store
    /\ UNCHANGED ctlVars
    /\ UNCHANGED wireVars

\* _run_server: "except OSError: break"
AcceptRaises ==
    /\ life.thread = "raised"
    /\ life' = [life EXCEPT !.thread = "done"]
    /\ UNCHANGED <<storage, race, hist, logs>>
    /\ UNCHANGED store
    /\ UNCHANGED ctlVars
    /\ UNCHANGED wireVars

\* stop(): self.running = False, and self.sock.close() if self.sock is set.
\* Closing a socket on which accept is in progress makes the accept raise
\* ("woken"), or leaves it blocked with the port held until a client
\* connects: which of the two depends on the platform and on whether the
\* call had already entered the kernel.
Stop(woken) ==
    /\ life.stops < MaxStops
    /\ life' = [life EXCEPT
                   !.running = FALSE,
                   !.stops = @ + 1,
                   !.old = life.handlers,
                   !.sock = IF @ = "None" THEN "None" ELSE "closed",
                   !.thread = IF life.sock = "open" /\ @ = "accept" /\ woken
                              THEN "raised" ELSE @,
                   !.port = IF life.sock = "open"
                               /\ ~(life.thread = "accept" /\ ~woken)
                            THEN "free" ELSE @]
    /\ UNCHANGED <<storage, race, hist, logs>>
    /\ UNCHANGED store
    /\ UNCHANGED ctlVars
    /\ UNCHANGED wireVars

\* _handle_client: one round of the handler thread of connection c
HandlerRound(c, f) ==
    /\ Len(hist) < MaxMemOps
    /\ c \in life.handlers
    /\ LET r == ModbusResponse(storage.modbus, f)
           done == [raised |-> r.raised, response |-> r.pdu]
       IN  /\ storage' = [storage EXCEPT !.modbus = r.storage]
           /\ hist' = Append(hist, Done("modbus", c, f, r.raised, r.pdu))
           /\ logs' = Record(logs, "modbus", f, done)
           /\ life' = IF r.raised
                      THEN [life EXCEPT !.handlers = @ \ {c}, !.old = @ \ {c}]
                      ELSE life
    /\ UNCHANGED race
    /\ UNCHANGED store
    /\ UNCHANGED ctlVars
    /\ UNCHANGED wireVars

\* _handle_client: recv returns b"" and the handler closes its socket
ClientClose(c) ==
    /\ c \in life.handlers
    /\ life' = [life EXCEPT !.handlers = @ \ {c}, !.old = @ \ {c}]
    /\ UNCHANGED <<storage, race, hist, logs>>
    /\ UNCHANGED store
    /\ UNCHANGED ctlVars
    /\ UNCHANGED wireVars

NextLife ==
    \/ Start
    \/ RunServerListen
    \/ LoopTest
    \/ \E c \in Conns : AcceptClient(c)
    \/ AcceptRaises
    \/ \E woken \in BOOLEAN : Stop(woken)
    \/ \E c \in Conns, f \in LifeFrames : HandlerRound(c, f)
    \/ \E c \in Conns : ClientClose(c)

SpecLife == InitMbMem /\ [][NextLife]_vars

\* ------------------------------------------------- a client that is silent

\* Thirty seconds pass in which the client of the connection sends nothing
\* while its handler waits in recv. An S7PLC handler has set a timeout of
\* 30 s on its socket: recv raises socket.timeout and the handler breaks out
\* of its loop and closes. A ModbusPLC handler sets no timeout: recv goes on
\* blocking.
Silence ==
    /\ conn.pc = "recv"
    /\ Len(hist) < MaxMemOps
    /\ conn' = IF conn.proto = "s7comm" THEN Closed ELSE conn
    /\ hist' = Append(hist, Done("silence", 0, [proto |-> conn.proto], FALSE, <<>>))
    /\ UNCHANGED <<storage, race, life, wire, reqs, accepted, logs>>
    /\ UNCHANGED store
    /\ UNCHANGED ctlVars

NextIdle ==
    \/ NextWire
    \/ Silence

SpecIdle == InitWire /\ [][NextIdle]_vars

\* ----------------------------------------------------- the profile store

\* simulation_config of a device: the name of a profile ("none": no
\* "profile" key) and the custom entries, for S7 per data block and offset
\* and per marker offset, for Modbus per register address.
SimConfig(profile, db, m, holding_registers) ==
    [profile |-> profile, db |-> db, m |-> m,
     holding_registers |-> holding_registers]
NoOverrides == SimConfig("water_treatment", <<>>, <<>>, <<>>)
SimConfigs ==
    {NoOverrides,
     SimConfig("none", <<>>, <<>>, <<>>),
     SimConfig("water_treatment",
               <<[db_num |-> 1, offset |-> 0, cfg |-> "fixed"]>>, <<>>, <<>>),
     SimConfig("water_treatment",
               <<[db_num |-> 2, offset |-> 4, cfg |-> "counter"]>>,
               <<[offset |-> 0, cfg |-> "counter"]>>, <<>>),
     SimConfig("none", <<[db_num |-> 1, offset |-> 0, cfg |-> "fixed"]>>, <<>>, <<>>),
     SimConfig("water_treatment", <<>>, <<>>, <<[addr |-> 0, cfg |-> "fixed"]>>)}

\* _parse_s7_simulation_config, "for db_num, offsets in custom_db.items()":
\* config["db"][db_key][int(offset)] = cfg, after config["db"][db_key] = {}
\* for a data block that is not there
RECURSIVE OverrideDb(_, _)
OverrideDb(db, custom) ==
    IF custom = <<>> THEN db
    ELSE LET c == Head(custom)
             db_key == StrKey(c.db_num)
             block == IF HasKey(db, db_key) THEN DictGet(db, db_key) ELSE {}
         IN  OverrideDb(DictSet(db, db_key, DictSet(block, IntKey(c.offset), c.cfg)),
                        Tail(custom))

\* "for offset, cfg in custom_m.items()": config["m"][int(offset)] = cfg
RECURSIVE OverrideM(_, _)
OverrideM(m, custom) ==
    IF custom = <<>> THEN m
    ELSE OverrideM(DictSet(m, IntKey(Head(custom).offset), Head(custom).cfg),
                   Tail(custom))

\* _parse_s7_simulation_config: the device's config and the loader's cache
\* afterwards. With a profile named, or with an empty simulation_config,
\* config["db"] and config["m"] are the dicts of the cached profile itself,
\* and the custom entries are stored into them.
ParseS7(cache, simcfg) ==
    IF simcfg.profile # "none" \/ (simcfg.db = <<>> /\ simcfg.m = <<>>)
    THEN LET parsed == [db |-> OverrideDb(cache.s7.db, simcfg.db),
                        m |-> OverrideM(cache.s7.m, simcfg.m)]
         IN  [config |-> parsed, cache |-> [cache EXCEPT !.s7 = parsed]]
    ELSE [config |-> [db |-> OverrideDb({}, simcfg.db),
                      m |-> OverrideM({}, simcfg.m)],
          cache |-> cache]

\* base_registers.update(custom_hr)
RECURSIVE UpdateRegisters(_, _)
UpdateRegisters(base, custom) ==
    IF custom = <<>> THEN base
    ELSE UpdateRegisters(DictSet(base, IntKey(Head(custom).addr), Head(custom).cfg),
                         Tail(custom))

\* ConfigDrivenSimulator._load_config: base_registers is a dict built from
\* the profile's list, the custom entries are merged into that dict
SimLoadConfig(cache, simcfg) ==
    LET base_registers ==
            IF simcfg.profile # "none" \/ simcfg.holding_registers = <<>>
            THEN cache.modbus.registers ELSE {}
    IN  [config |-> [registers |->
                        UpdateRegisters(base_registers, simcfg.holding_registers)],
         cache |-> cache]

\* S7PLC.__init__ with a simulation_config
NewS7Device(simcfg) ==
    /\ Len(hist) < MaxMemOps
    /\ LET r == ParseS7(store, simcfg)
       IN  /\ store' = r.cache
           /\ hist' = Append(hist, Done("s7", 0, simcfg, FALSE, r.config))
    /\ UNCHANGED <<storage, race, life, logs>>
    /\ UNCHANGED ctlVars
    /\ UNCHANGED wireVars

\* ConfigDrivenSimulator.__init__ with a simulation_config
NewSimulator(simcfg) ==
    /\ Len(hist) < MaxMemOps
    /\ LET r == SimLoadConfig(store, simcfg)
       IN  /\ store' = r.cache
           /\ hist' = Append(hist, Done("sim", 0, simcfg, FALSE, r.config))
    /\ UNCHANGED <<storage, race, life, logs>>
    /\ UNCHANGED ctlVars
    /\ UNCHANGED wireVars

NextStore ==
    \/ \E simcfg \in SimConfigs : NewS7Device(simcfg)
    \/ \E simcfg \in SimConfigs : NewSimulator(simcfg)

SpecStore == InitWire /\ [][NextStore]_vars

\* ------------------------------------------------ the PM5300 hook alone

\* The holding registers the hook may find: the command register with a
\* command or not, the energy registers and the result register with a
\* cell or without one ("None": no cell).
RECURSIVE WithCells(_, _)
WithCells(regs, cells) ==
    IF cells = <<>> THEN regs
    ELSE WithCells(IF Head(cells)[2] = None THEN regs
                   ELSE Put(regs, Head(cells)[1], Head(cells)[2]),
                   Tail(cells))
HookImages ==
    {[UnitImage EXCEPT
         !.holding_registers =
             WithCells(NoEntries, <<<<3200, e0>>, <<3201, e1>>, <<5000, cmd>>,
                                    <<5002, res>>, <<3020, 230>>>>),
         !.coils = IF trip = None THEN NoEntries ELSE Put(NoEntries, 0, trip = 1)] :
        e0 \in {None, 0, 5}, e1 \in {None, 6}, cmd \in {0, 7, 2020},
        res \in {None, 1}, trip \in {None, 0, 1}}

InitHook ==
    /\ RunningNode
    /\ WireAtRest
    /\ \E u \in HookImages :
          storage = [s7comm |-> S7Storage, modbus |-> Put(NoEntries, 1, u)]
    /\ race = NoRace
    /\ life = Unstarted
    /\ store = WaterTreatment
    /\ hist = <<>>

\* update_storage: self._handle_pm5300_command(storage, unit_id)
Pm5300Hook ==
    /\ Len(hist) < MaxMemOps
    /\ storage' = [storage EXCEPT !.modbus[1] = HandlePm5300Command(@)]
    /\ hist' = Append(hist, Done("hook", 0, [value |-> 0], FALSE, <<>>))
    /\ UNCHANGED <<race, life, store, logs>>
    /\ UNCHANGED ctlVars
    /\ UNCHANGED wireVars

\* a handler stores a command or an energy value between two ticks
HookWrite(f) ==
    /\ MbRequest(1, f)

HookWrites == {MbFrame(1, <<6, 5000, 2020>>), MbFrame(1, <<6, 3200, 9>>)}

NextHook ==
    \/ Pm5300Hook
    \/ \E f \in HookWrites : HookWrite(f)

SpecHook == InitHook /\ [][NextHook]_vars

\* ------------------------------------------- the sync loop, scheduled fairly
\* _sync_loop runs its three calls in sequence and sleeps; every request has
\* a timeout of 2 s and every exception is caught, so a call that is due is
\* made. Here every heartbeat is answered 200.

LoopStep ==
    \/ \E busy \in BusyChoices : SendHeartbeat("ok", busy)
    \/ \E o \in {"ok", "fail"} : FetchConfig(o)
    \/ \E o \in {"ok", "fail"} : UploadLogs(o)
    \/ Sleep

\* The operator acts while the loop has a tick left to run (bound).
TickLeft == now + SyncInterval <= MaxTime

NextDisable ==
    \/ LoopStep
    \/ \E b \in BOOLEAN : TickLeft /\ OpToggle("X", b)
    \/ \E raw \in RawChoices : TickLeft /\ OpUpdateConfig("X", NoId, raw)

SpecDisable == Init /\ [][NextDisable]_vars /\ WF_vars(LoopStep)

\* The agent's row is registered under its node_id with is_active = v.
Flag(v) == node_id \in DOMAIN agents /\ agents[node_id].is_active = v

\* ------------------------------------------------- uploads, scheduled fairly
\* The sync loop of a running node for as long as the process runs: the
\* heartbeat and the fetch catch every exception, so _upload_logs is called
\* in every tick, and its two requests return within their timeouts.

\* time.sleep(5) once the clock has reached MaxTime (bound): the clock is
\* read by a start of devices only and stays where it is.
SleepLate ==
    /\ pc = "sleep"
    /\ now + SyncInterval > MaxTime
    /\ pc' = "hb"
    /\ ev' = Idle("sleep")
    /\ UNCHANGED <<agents, srvLogs, ops, node_id, config, saved, plcs,
                   start_attempt_count, last_start_attempt_time, logs, phase, now,
                   renamePending, reloadPending, attemptsSinceReset, lastAttemptAt,
                   upload, acked, clock>>
    /\ UNCHANGED wireVars
    /\ UNCHANGED devVars

\* Records the database can hold in a run (from the bounds).
MaxRecords == UploadBatch + 1 + MaxAppends

\* An answer is lost only while the server's table is short of MaxRecords
\* rows (bound).
LostLeft(outcome) == outcome = "lost" => Len(srvLogs) < MaxRecords

UploadLoop ==
    \/ \E o \in {"ok", "fail"} : SendHeartbeat(o, {})
    \/ \E o \in {"ok", "fail"} : FetchConfig(o)
    \/ UploadFetch
    \/ \E o \in UploadOutcomes : LostLeft(o) /\ UploadPost(o)
    \/ Sleep
    \/ SleepLate

NextUpload ==
    \/ UploadLoop
    \/ HandlerLogs

SpecUpload == InitLogs /\ [][NextUpload]_vars /\ WF_vars(UploadLoop)

\* The last step was a POST of records that was not answered 200.
PostNotOk == ev.step = "post" /\ ev.outcome # "ok"

\* ------------------------------------------- a running agent is deleted
\* The sync loop of a registered agent whose devices run, and the operator
\* deleting its row or toggling it.

NextDelete ==
    \/ \E o \in Outcomes, busy \in BusyChoices : SendHeartbeat(o, busy)
    \/ \E o \in {"ok", "fail"} : FetchConfig(o)
    \/ \E o \in {"ok", "fail"} : UploadLogs(o)
    \/ Sleep
    \/ OpDelete("X")
    \/ \E b \in BOOLEAN : OpToggle("X", b)

SpecDelete == InitWire /\ [][NextDelete]_vars

\* ------------------------------------------------------------ properties

\* C1: a heartbeat whose request fails at the transport level ends with no
\* device running, whatever was running when it was sent.
C1_SafetyStop ==
    ev.step = "hb" /\ ev.outcome = "fail" => plcs = <<>>

C1_Witness ==
    ev.step = "hb" /\ ev.outcome = "fail" /\ ev.ran /\ plcs = <<>>

\* C2: once the operator has renamed this agent's id X to Y, the next answered
\* heartbeat (still sent as X) carries new_node_id = Y and leaves the agent
\* with node_id = Y in memory and in its config file; every heartbeat is sent
\* under the agent's current node_id, and node_id changes in no other way, so
\* the later heartbeats carry Y.
C2_AdoptionEndToEnd ==
    [][/\ ev'.step = "hb" => ev'.sent_id = node_id
       /\ ev'.step = "hb" /\ ev'.outcome = "ok" /\ renamePending # NoId
            => /\ ev'.reply.new_node_id = renamePending
               /\ node_id' = renamePending
               /\ saved'.node_id = renamePending
       /\ node_id' # node_id
            => /\ ev'.step = "hb"
               /\ ev'.reply.new_node_id = node_id'
               /\ saved'.node_id = node_id']_vars

C2_Witness ==
    /\ ev.step = "hb" /\ ev.outcome = "ok" /\ ev.sent_id = "Y"
    /\ node_id = "Y" /\ saved.node_id = "Y"
    /\ "Y" \in DOMAIN agents /\ agents["Y"].config.original_id = "X"

\* C3: a heartbeat answered with a new_node_id other than the agent's id ends
\* with no device running, the id taken over in memory and in the config
\* file, the attempt counter at zero and the cooldown over by the next
\* heartbeat, and with no start attempted.
C3_AdoptionStep ==
    [][ev'.step = "hb" /\ ev'.reply.new_node_id # NoId
                       /\ ev'.reply.new_node_id # node_id
         => /\ plcs' = <<>>
            /\ node_id' = ev'.reply.new_node_id
            /\ config' = [config EXCEPT !.node_id = ev'.reply.new_node_id]
            /\ saved' = CleanConfig(config')
            /\ start_attempt_count' = 0
            /\ now + (IF phase = "sync" THEN SyncInterval ELSE 0)
                   - last_start_attempt_time' >= StartCooldown
            /\ ~ev'.attempt]_vars

C3_Witness ==
    /\ ev.step = "hb" /\ ev.sent_id = "X" /\ ev.reply.new_node_id = "Y"
    /\ ev.ran /\ plcs = <<>> /\ node_id = "Y" /\ start_attempt_count = 0

\* C4: devices are started only by a start attempt, and a start attempt is
\* made only in the sync loop's handling of an answered heartbeat whose
\* command is start and that carries no new id, with no device running, a
\* config that lists a device, the cooldown over and fewer than three
\* attempts counted.
C4_StartOnlyOnCommand ==
    [][/\ plcs = <<>> /\ plcs' # <<>> => ev'.attempt
       /\ ev'.attempt
            => /\ pc = "hb" /\ ev'.step = "hb" /\ phase = "sync"
               /\ ev'.outcome = "ok"
               /\ ev'.reply.command = "start"
               /\ ev'.reply.new_node_id \in {NoId, node_id}
               /\ plcs = <<>>
               /\ config.plcs # <<>>
               /\ now - last_start_attempt_time >= StartCooldown
               /\ start_attempt_count < MaxStartAttempts]_vars

C4_Witness ==
    ev.step = "hb" /\ ev.attempt /\ ev.reply.command = "start" /\ plcs # <<>>

\* C5: no start attempt is made while the counter is at three or more; the
\* counter returns to zero when, and only when, a start succeeds, a fetched
\* config is installed or the agent is adopted; the attempts made since the
\* last of these never exceed three, and the counter counts them.
C5_BackoffCap ==
    [][/\ start_attempt_count >= MaxStartAttempts => ~ev'.attempt
       /\ attemptsSinceReset' <= MaxStartAttempts
       /\ attemptsSinceReset' = IF start_attempt_count' > MaxStartAttempts
                                THEN MaxStartAttempts
                                ELSE start_attempt_count'
       /\ start_attempt_count # 0 /\ start_attempt_count' = 0
            => \/ ev'.attempt /\ plcs' # <<>>
               \/ ev'.step = "fetch" /\ config'.plcs # config.plcs
               \/ node_id' # node_id
       /\ (\/ ev'.attempt /\ plcs' # <<>>
           \/ ev'.step = "fetch" /\ config'.plcs # config.plcs
           \/ node_id' # node_id)
            => start_attempt_count' = 0]_vars

C5_Witness ==
    /\ start_attempt_count = MaxStartAttempts + 1
    /\ attemptsSinceReset = MaxStartAttempts
    /\ ev.step = "hb" /\ ev.reply.command = "start" /\ ~ev.attempt

\* C6, as stated: a start attempt follows the previous one by at least the
\* cooldown.
C6_Original ==
    ev.gap # -1 => ev.gap >= StartCooldown

\* C6, amended: a start attempt follows the previous one by at least the
\* cooldown unless a fetched config was installed between the two.
C6_CooldownUnlessReload ==
    ev.gap # -1 /\ ~ev.after_reload => ev.gap >= StartCooldown

C6_Witness ==
    ev.attempt /\ ev.gap = StartCooldown /\ ~ev.after_reload

\* C7, as stated: a device whose port is held by another process is not
\* recorded as running, and a start in which no device could bind its port
\* is counted as a failed attempt.
C7_PortInUseFails ==
    /\ \A i \in DOMAIN plcs : plcs[i].listening
    /\ ev.attempt /\ plcs = <<>> => start_attempt_count >= 1

C9_RejectedConfig ==
    [][ev'.step = "fetch"
         /\ (ev'.outcome # "ok" \/ ~ValidateConfig(CleanConfig(ev'.body)))
         => UNCHANGED <<config, plcs, start_attempt_count,
                        last_start_attempt_time, node_id, saved>>]_vars

C9_Witness ==
    /\ ev.step = "fetch" /\ ev.outcome = "ok"
    /\ ~ValidateConfig(CleanConfig(ev.body))
    /\ plcs # <<>>

C12_Original ==
    [][/\ pc = "upload" /\ ev'.step = "get_logs"
             => LET U == {i \in DOMAIN logs : ~logs[i].uploaded}
                IN  /\ Len(upload') <= UploadBatch
                    /\ {upload'[j].id : j \in DOMAIN upload'} =
                          {logs[i].id : i \in {u \in U :
                               Cardinality({k \in U : k < u}) < UploadBatch}}
                    /\ \A j \in 1..(Len(upload') - 1) : upload'[j].id < upload'[j + 1].id
       /\ pc = "post" /\ ev'.step = "post"
             => \A j \in DOMAIN upload : \A i \in DOMAIN logs :
                   logs[i].id = upload[j].id => ~logs[i].uploaded
       /\ \A k, m \in DOMAIN srvLogs' : k < m => srvLogs'[k].rec <= srvLogs'[m].rec
      ]_vars

\* C12: at most 10 records per upload, exactly the lowest-id pending records
\* at fetch time, in id order, no record sent once it is marked; a record
\* reaches the server for the first time only after every record with a lower
\* id has reached it (a batch whose answer was lost is sent again).
C12_LowestPendingFirst ==
    [][/\ pc = "upload" /\ ev'.step = "get_logs"
             => LET U == {i \in DOMAIN logs : ~logs[i].uploaded}
                IN  /\ Len(upload') <= UploadBatch
                    /\ {upload'[j].id : j \in DOMAIN upload'} =
                          {logs[i].id : i \in {u \in U :
                               Cardinality({k \in U : k < u}) < UploadBatch}}
                    /\ \A j \in 1..(Len(upload') - 1) : upload'[j].id < upload'[j + 1].id
       /\ pc = "post" /\ ev'.step = "post"
             => \A j \in DOMAIN upload : \A i \in DOMAIN logs :
                   logs[i].id = upload[j].id => ~logs[i].uploaded
       /\ \A k \in DOMAIN srvLogs' : \A i \in 1..(srvLogs'[k].rec - 1) :
             \E m \in 1..(k - 1) : srvLogs'[m].rec = i
      ]_vars

\* A full first upload, then an upload of the rest together with a record
\* written meanwhile, while a later record is still pending.
C12_Witness ==
    /\ ev.step = "post"
    /\ Len(srvLogs) = UploadBatch + 2
    /\ srvLogs[UploadBatch + 2].rec = UploadBatch + 2
    /\ Len(logs) = UploadBatch + 3
    /\ logs[UploadBatch + 2].uploaded
    /\ ~logs[UploadBatch + 3].uploaded

\* C13: a step that stops, starts or reconfigures devices, and a restart of
\* the agent that opens the database again, leave every record and its
\* uploaded flag as they were.
C13_RecordsOutliveDevices ==
    [][plcs' # plcs \/ config' # config \/ (ops' # ops /\ ev'.step = "restart")
          => logs' = logs]_vars

\* The agent was restarted on a database holding acknowledged and pending records.
C13_Witness ==
    /\ ev.step = "restart"
    /\ logs # <<>> /\ logs[1].uploaded /\ ~logs[Len(logs)].uploaded

\* C14: a heartbeat from a node_id that is not registered is answered
\* {adopted, stop, new_node_id} with the id of a registered agent whose config
\* carries original_id = that node_id, if there is one, and then no row is
\* created or changed; otherwise a row for the node_id is created with an
\* empty device list and the name 'Pending (<node_id>)', the other rows are
\* left alone, and the answer is {registered, start}.
C14_UnknownHeartbeat ==
    [][ev'.step = "hb" /\ ev'.outcome = "ok" /\ ev'.sent_id \notin DOMAIN agents
          => LET id == ev'.sent_id
                 A == {i \in DOMAIN agents : agents[i].config.original_id = id}
             IN  IF A # {}
                 THEN /\ ev'.reply.status = "adopted"
                      /\ ev'.reply.command = "stop"
                      /\ ev'.reply.new_node_id \in A
                      /\ agents' = agents
                 ELSE /\ ev'.reply = Reply("registered", "start", NoId)
                      /\ DOMAIN agents' = DOMAIN agents \cup {id}
                      /\ agents'[id].config.plcs = <<>>
                      /\ agents'[id].config.node_id = id
                      /\ agents'[id].name = PendingName(id)
                      /\ \A i \in DOMAIN agents : agents'[i] = agents[i]
      ]_vars

\* A heartbeat of X was answered with the adoption by Y while X has no row.
C14_Witness ==
    /\ ev.step = "hb" /\ ev.sent_id = "X"
    /\ ev.reply = Reply("adopted", "stop", "Y")
    /\ DOMAIN agents = {"Y"}
    /\ agents["Y"].name # PendingName("Y")

\* C15: a heartbeat from a registered node_id sets the row's last-seen time
\* to the server's clock, changes nothing else in the table, and is answered
\* with command stop if the row's active flag is false and start if it is true.
C15_KnownHeartbeat ==
    [][ev'.step = "hb" /\ ev'.outcome = "ok" /\ ev'.sent_id \in DOMAIN agents
          => LET id == ev'.sent_id
             IN  /\ agents' = [agents EXCEPT ![id].last_heartbeat = clock]
                 /\ ev'.reply.status = "ok"
                 /\ ev'.reply.new_node_id = NoId
                 /\ ev'.reply.command = "stop" <=> ~agents[id].is_active
                 /\ ev'.reply.command = "start" <=> agents[id].is_active
      ]_vars

\* A heartbeat of an inactive agent, later than the one that registered it.
C15_Witness ==
    /\ ev.step = "hb" /\ ev.reply = Reply("ok", "stop", NoId)
    /\ ev.sent_id \in DOMAIN agents
    /\ ~agents[ev.sent_id].is_active
    /\ agents[ev.sent_id].last_heartbeat = clock
    /\ clock > BootTime

\* C16 as stated: a heartbeat from a registered agent whose stored config has
\* no devices, carrying a config with devices, replaces the stored config
\* with the config carried.
C16_ServerTakesClientConfig ==
    [][(/\ ev'.step = "hb" /\ ev'.outcome = "ok" /\ ev'.sent_id \in DOMAIN agents
        /\ agents[ev'.sent_id].config.plcs = <<>>
        /\ ev'.body.plcs # <<>>)
          => agents'[ev'.sent_id].config = ev'.body
      ]_vars

\* C17: a request to rename an agent to a node_id that is registered is
\* answered with status error and leaves the agents table and the logs table
\* as they were.
C17_RenameCollision ==
    [][(/\ ev'.step = "update" /\ ops' # ops
        /\ ev'.asked_id # NoId /\ ev'.asked_id # ev'.sent_id
        /\ ev'.asked_id \in DOMAIN agents)
          => /\ ev'.outcome = "error"
             /\ agents' = agents
             /\ srvLogs' = srvLogs
      ]_vars

\* A rename of X to the registered Y was refused, with log rows stored.
C17_Witness ==
    /\ ev.step = "update" /\ ev.outcome = "error"
    /\ ev.sent_id = "X" /\ ev.asked_id = "Y"
    /\ DOMAIN agents = {"X", "Y"}
    /\ srvLogs # <<>>

\* C18: after a rename of the registered agent X to an unused id Y, no row of
\* the agents table and no row of the logs table is keyed by X, the log rows
\* that were keyed by X are keyed by Y and the others are as before, and Y's
\* config carries node_id = Y and original_id = X.
C18_RenameRekeys ==
    [][(/\ ev'.step = "update" /\ ops' # ops
        /\ ev'.asked_id # NoId /\ ev'.asked_id # ev'.sent_id
        /\ ev'.asked_id \notin DOMAIN agents
        /\ ev'.sent_id \in DOMAIN agents)
          => LET old == ev'.sent_id
                 new == ev'.asked_id
             IN  /\ ev'.outcome = "updated"
                 /\ ev'.reply.new_node_id = new
                 /\ DOMAIN agents' = (DOMAIN agents \ {old}) \cup {new}
                 /\ agents'[new].config.original_id = old
                 /\ agents'[new].config.node_id = new
                 /\ Len(srvLogs') = Len(srvLogs)
                 /\ \A k \in DOMAIN srvLogs :
                       /\ srvLogs'[k].node_id # old
                       /\ srvLogs'[k].rec = srvLogs[k].rec
                       /\ srvLogs'[k].node_id =
                             IF srvLogs[k].node_id = old THEN new
                             ELSE srvLogs[k].node_id
      ]_vars

\* X was renamed to Y with a log row of X and a log row of Y stored before.
C18_Witness ==
    /\ ev.step = "update" /\ ev.outcome = "updated"
    /\ ev.sent_id = "X" /\ ev.asked_id = "Y"
    /\ "X" \notin DOMAIN agents
    /\ agents["Y"].config.original_id = "X"
    /\ Len(srvLogs) = MaxRows
    /\ \A k \in DOMAIN srvLogs : srvLogs[k].node_id = "Y"

\* C19 as stated: a response to an S7 PDU carried in a DT is sent only on a
\* connection on which a CC has been sent before.
C19_AnsweredOnlyWhenConnected ==
    \A k \in DOMAIN wire :
        wire[k].proto = "s7comm" /\ wire[k].request.cotp = CotpDT
           => wire[k].connected

\* C20: a CR is answered with a CC carrying its source reference if its
\* Called TSAP selects slot 2 on an S7-300 or slot 1 on an S7-1200, and a CC
\* is sent for no other frame; every other CR is answered with one DR
\* carrying its source reference and reason 1 and has one record, with
\* s7.action = reject_connection, which no other record carries; the step
\* that sends the DR closes the connection, and a closed connection sends
\* and records nothing.
C20_SlotCheck ==
    [][/\ \A k \in DOMAIN wire' :
             LET e == wire'[k]
                 allowed == IF e.model = "S7-300" THEN {2} ELSE {1}
             IN  e.proto = "s7comm"
                    => /\ e.request.cotp = CotpCR /\ e.request.slot \in allowed
                             => e.response = <<CotpCC, e.request.src>>
                       /\ e.request.cotp = CotpCR /\ e.request.slot \notin allowed
                             => /\ e.response = <<CotpDR, e.request.src, 1>>
                                /\ Cardinality({i \in DOMAIN logs' :
                                       /\ logs'[i].request = e.request
                                       /\ logs'[i].response = e.response
                                       /\ logs'[i].action = "reject_connection"}) = 1
                       /\ Head(e.response) = CotpCC
                             => e.request.cotp = CotpCR /\ e.request.slot \in allowed
                       /\ Head(e.response) = CotpDR
                             => e.request.cotp = CotpCR /\ e.request.slot \notin allowed
                       /\ Cardinality({m \in DOMAIN wire' :
                                          wire'[m].request.seq = e.request.seq}) = 1
       /\ \A i \in DOMAIN logs' :
             logs'[i].action = "reject_connection" <=>
                logs'[i].protocol = "s7comm" /\ Head(logs'[i].response) = CotpDR
       /\ wire' # wire /\ Head(wire'[Len(wire')].response) = CotpDR
             /\ wire'[Len(wire')].proto = "s7comm"
             => conn'.pc = "closed"
       /\ conn.pc = "closed" => wire' = wire /\ logs' = logs /\ conn'.pc \in {"closed", "recv"}
      ]_vars

\* An S7-300 answered a CR for slot 2 with a CC, then rejected a CR for slot 1
\* on the same connection and closed it.
C20_Witness ==
    /\ Len(wire) = 2
    /\ wire[1].model = "S7-300" /\ wire[1].response = <<CotpCC, 1>>
    /\ wire[2].model = "S7-300" /\ wire[2].response = <<CotpDR, 2, 1>>
    /\ wire[2].connected
    /\ conn.pc = "closed"
    /\ logs[2].action = "reject_connection"

\* A write and a later read of the same bytes with only reads in between:
\* entry k of the history is an answered Write Var, entry m a Read Var of as
\* many bytes (byte transport) at the location of its first item.
ReadsBack(k, m) ==
    /\ k < m
    /\ hist[k].op = "write" /\ hist[k].response # <<>>
    /\ hist[m].op = "read"
    /\ LET it == hist[k].request.items[1]
           q == hist[m].request.item
       IN  /\ q.transport = 2 /\ q.length = Len(it.data)
           /\ q.area = it.area /\ q.db_num = it.db_num /\ q.start = it.start
    /\ \A j \in DOMAIN hist : k < j /\ j < m => hist[j].op = "read"

\* the data bytes of a Read Var response
ReadBytes(response) == SubSeq(response, 8, Len(response))

RECURSIVE Successes(_)
Successes(n) == IF n = 0 THEN <<>> ELSE <<255>> \o Successes(n - 1)

\* C22: a Write Var with item count n >= 1 is answered with n return codes
\* 0xFF, one per item, and right after it every item that lies inside its
\* area reads back from the image.
C22_EveryItemWritten ==
    \A k \in DOMAIN hist :
        (/\ hist[k].op = "write"
         /\ hist[k].request.count >= 1
         /\ Len(hist[k].request.items) = hist[k].request.count)
        => /\ hist[k].response =
                <<CotpDT, 3, 5, hist[k].request.count>>
                    \o Successes(hist[k].request.count)
           /\ k = Len(hist) =>
                \A i \in DOMAIN hist[k].request.items :
                    LET it == hist[k].request.items[i]
                    IN  (AreaKnown(it.area)
                         /\ (it.area = AreaDB \/ it.start + Len(it.data) <= FixedSize))
                        => ReadData(storage.s7comm, it.area, it.db_num,
                                    it.start, Len(it.data)).data = it.data

\* Entry k of the history is an answered single write (FC6 or FC5) to a
\* mapped unit and entry m the next read (FC3 or FC1, quantity 1) of the
\* address it wrote: no simulation tick and no other write of that address
\* lies between them.
NextReadOf(k, m) ==
    /\ k < m
    /\ hist[k].op = "modbus" /\ hist[m].op = "modbus"
    /\ hist[k].request.unit \in ModbusUnits
    /\ hist[m].request.unit = hist[k].request.unit
    /\ LET w == hist[k].request.pdu
           q == hist[m].request.pdu
       IN  /\ Len(w) = 3 /\ Len(q) = 3
           /\ <<w[1], q[1]>> \in {<<6, 3>>, <<5, 1>>}
           /\ q[2] = w[2] /\ q[3] = 1
           /\ \A j \in DOMAIN hist :
                 k < j /\ j < m =>
                    /\ hist[j].op = "modbus"
                    /\ ~(/\ hist[j].request.unit = hist[k].request.unit
                         /\ Len(hist[j].request.pdu) = 3
                         /\ hist[j].request.pdu[1] = w[1]
                         /\ hist[j].request.pdu[2] = w[2])

\* C23: the next read of an address returns what the last single write put
\* there, FC6 then FC3 for a register and FC5 then FC1 for a coil, on the
\* connection that wrote or on another one, when no simulation tick came in
\* between.
C23_RoundTrip ==
    \A k, m \in DOMAIN hist :
        NextReadOf(k, m) =>
            LET w == hist[k].request.pdu
            IN  /\ ~hist[m].raised
                /\ w[1] = 6 =>
                      hist[m].response = <<3, 2, w[3] \div 256, w[3] % 256>>
                /\ w[1] = 5 =>
                      hist[m].response = <<1, 1, IF w[3] = 65280 THEN 1 ELSE 0>>

\* Register 10, initialized to 7, was set to 9 on connection 1 and read as 9
\* on connection 2 and then on connection 1.
C23_Witness ==
    /\ Len(hist) = 3
    /\ NextReadOf(1, 2) /\ NextReadOf(1, 3)
    /\ hist[1].request = MbFrame(1, <<6, 10, 9>>) /\ hist[1].conn = 1
    /\ hist[2].conn = 2 /\ hist[3].conn = 1
    /\ hist[2].response = <<3, 2, 0, 9>>
    /\ hist[3].response = <<3, 2, 0, 9>>

\* fc | 0x80
OrHighBit(fc) == IF fc >= 128 THEN fc ELSE fc + 128

\* C24: a request for a unit that is not mapped, whatever its function code,
\* is answered with the PDU <<fc | 0x80, 0x0A>> and changes no memory image.
C24_GatewayPathUnavailable ==
    [][(/\ Len(hist') = Len(hist) + 1
        /\ hist'[Len(hist')].op = "modbus"
        /\ hist'[Len(hist')].request.unit \notin ModbusUnits)
       => /\ hist'[Len(hist')].response =
               <<OrHighBit(Head(hist'[Len(hist')].request.pdu)), 10>>
          /\ storage' = storage
      ]_vars

\* C25: every Modbus frame that carries a function code, a start address and
\* a quantity is answered: the handler goes on to log and send one response
\* made of the unit id of the request and a PDU (a normal response or an
\* exception of two bytes), and does not end the connection.
C25_AlwaysAnswered ==
    [][\A f \in ModbusFrames :
          (conn.proto = "modbus" /\ Len(f.pdu) = 3 /\ Recv(f))
          => /\ conn'.pc = "round"
             /\ conn'.h.outcome = "respond"
             /\ conn'.h.steps = <<"log", "send">>
             /\ Head(conn'.h.response) = f.unit
             /\ Len(conn'.h.response) >= 3
      ]_vars

\* the static entries of a table of the profile
Static(entries) == {entries[i] : i \in {j \in DOMAIN entries : entries[j].wave = "static"}}

\* C26: a simulation tick leaves every static entry as it found it. A static
\* holding register or coil holds after the tick what it held before it (its
\* initial value or the last value a request wrote); a static input register
\* or discrete input, which no request writes, holds its declared initial
\* value.
C26_StaticKept ==
    [][(Len(hist') = Len(hist) + 1 /\ hist'[Len(hist')].op = "tick")
       => LET u == storage.modbus[1]
              v == storage'.modbus[1]
          IN  /\ \A cfg \in Static(HoldingRegisters) :
                    Get(v.holding_registers, cfg.addr, None)
                        = Get(u.holding_registers, cfg.addr, None)
              /\ \A cfg \in Static(CoilEntries) :
                    /\ cfg.addr \in DOMAIN v.coils
                    /\ v.coils[cfg.addr] = u.coils[cfg.addr]
              /\ \A cfg \in Static(InputRegisters) :
                    Get(v.input_registers, cfg.addr, None) = cfg.min
              /\ \A cfg \in Static(DiscreteInputs) :
                    /\ cfg.addr \in DOMAIN v.discrete_inputs
                    /\ v.discrete_inputs[cfg.addr] = cfg.value
      ]_vars

\* the four bytes of a float32 in two registers
FloatBytes(bits) ==
    <<EncodeFloat32(bits)[1] \div 256, EncodeFloat32(bits)[1] % 256,
      EncodeFloat32(bits)[2] \div 256, EncodeFloat32(bits)[2] % 256>>

\* C27: an FC3 read of the two registers of the float32 entry returns the two
\* halves of one value the simulation wrote, never one half from one tick
\* and the other half from another.
C27_NoTornRead ==
    \A k \in DOMAIN hist :
        (hist[k].op = "modbus" /\ hist[k].request = FloatRead)
        => \E g \in FloatChoices : hist[k].response = <<3, 4>> \o FloatBytes(g)

\* C28: once stop() has been called, no request is answered or applied to
\* the memory image on a connection that was accepted before it.
C28_StopCancelsConnections ==
    [][Len(hist') = Len(hist) + 1
       => hist'[Len(hist')].conn \notin life.old
      ]_vars

\* C29: when stop() has been called and the accept thread has ended, the
\* listening socket is closed and the port is free; a stop() that follows a
\* stop() changes nothing.
C29_ListenerReleased ==
    [][/\ (life'.stops > 0 /\ ~life'.running /\ life'.thread = "done")
          => life'.sock = "closed" /\ life'.port = "free"
       /\ (life.stops > 0 /\ ~life.running /\ life'.stops = life.stops + 1)
          => [life' EXCEPT !.stops = life.stops, !.old = life.old] = life
      ]_vars

\* C30: on a connection the handler has one request in hand at a time. A
\* response is sent only for the request in hand; a frame is read only when
\* no request is in hand; the handler goes back to reading only when the
\* response to the request in hand is the last one sent; so the responses on
\* the wire are in the order in which their requests were read.
C30_InOrder ==
    [][/\ (wire' # wire)
          => (/\ conn.pc = "round"
              /\ wire' = Append(wire, wire'[Len(wire')])
              /\ wire'[Len(wire')].request = conn.req)
       /\ (reqs' # reqs)
          => (conn.pc = "recv" /\ conn.req = NoFrame)
       /\ (conn.pc = "round" /\ conn'.pc = "recv")
          => (wire' # <<>> /\ wire'[Len(wire')].request = conn.req)
       /\ \A i, j \in DOMAIN wire' :
             (i < j) => (wire'[i].request.seq < wire'[j].request.seq)
      ]_vars

\* On one S7 connection the CR, read first, was answered with the CC, then
\* the second frame was answered, and the handler is reading again.
C30_Witness ==
    /\ Len(wire) = 2
    /\ wire[1].request.seq = 1 /\ Head(wire[1].response) = CotpCC
    /\ wire[2].request.seq = 2 /\ wire[2].connected
    /\ conn.pc = "recv" /\ conn.cc /\ conn.req = NoFrame
    /\ reqs = 2

\* C31: a handler of either protocol whose client has sent nothing for 30
\* seconds closes the connection and ends.
C31_IdleTimeout ==
    [][(Len(hist') = Len(hist) + 1 /\ hist'[Len(hist')].op = "silence")
       => conn'.pc = "closed"
      ]_vars

\* C32: whatever devices have been constructed, the store returns the
\* profile as it was loaded, and a device constructed with the profile and
\* no custom entries has the profile's entries.
C32_StoreImmutable ==
    /\ store = WaterTreatment
    /\ \A k \in DOMAIN hist :
          (hist[k].request = NoOverrides)
          => (/\ hist[k].op = "s7" => hist[k].response = WaterTreatment.s7
              /\ hist[k].op = "sim" => hist[k].response = WaterTreatment.modbus)

\* what a read of holding register r returns
Reg(st, r) == Get(st.modbus[1].holding_registers, r, 0)

\* C33: when the hook runs with 2020 in register 5000, registers 3200, 3201,
\* 5000 and 5002 are 0 afterwards; with any other value in register 5000 the
\* hook leaves the four registers as they were.
C33_Command2020 ==
    [][(Len(hist') = Len(hist) + 1 /\ hist'[Len(hist')].op = "hook")
       => IF Reg(storage, 5000) = 2020
          THEN \A r \in {3200, 3201, 5000, 5002} : Reg(storage', r) = 0
          ELSE \A r \in {3200, 3201, 5000, 5002} :
                  /\ Reg(storage', r) = Reg(storage, r)
                  /\ (r \in DOMAIN storage'.modbus[1].holding_registers)
                       <=> (r \in DOMAIN storage.modbus[1].holding_registers)
      ]_vars

\* C34: while the agent's row is inactive no step makes a start attempt, and
\* from every state in which the row is inactive the agent comes to have no
\* device running, unless the row is made active first.
C34_OperatorDisable ==
    /\ [][ev'.attempt => ~Flag(FALSE)]_vars
    /\ [](Flag(FALSE) => <>(plcs = <<>> \/ Flag(TRUE)))
\* A heartbeat answered stop has stopped the devices of an inactive agent.
C34_Witness ==
    /\ ev.step = "hb" /\ ev.outcome = "ok" /\ ev.reply.command = "stop"
    /\ ev.ran /\ plcs = <<>>
    /\ Flag(FALSE) /\ ops > 0

\* C35: the heartbeat that registers a node_id creates its row inactive and
\* is answered start; a heartbeat from a registered node_id whose row is
\* inactive is answered stop and leaves it inactive; the flag of a row goes
\* from false to true only in a toggle; registering a node_id that has a row
\* keeps the row's flag.
C35_CreatedInactive ==
    [][/\ (ev'.step = "hb" /\ ev'.reply.status = "registered")
            => /\ ev'.sent_id \notin DOMAIN agents
               /\ ~agents'[ev'.sent_id].is_active
               /\ ev'.reply.command = "start"
       /\ (ev'.step = "hb" /\ ev'.sent_id \in DOMAIN agents
             /\ ~agents[ev'.sent_id].is_active)
            => /\ ev'.reply.command = "stop"
               /\ ~agents'[ev'.sent_id].is_active
       /\ \A i \in DOMAIN agents \cap DOMAIN agents' :
             (~agents[i].is_active /\ agents'[i].is_active) => ev'.step = "toggle"
       /\ (ev'.step = "add" /\ ev'.sent_id \in DOMAIN agents)
            => agents'[ev'.sent_id].is_active = agents[ev'.sent_id].is_active
      ]_vars
\* A heartbeat from an agent that a heartbeat registered, answered stop.
C35_Witness ==
    /\ ev.step = "hb" /\ ev.reply = Reply("ok", "stop", NoId)
    /\ ev.sent_id \in DOMAIN agents
    /\ agents[ev.sent_id].name = PendingName(ev.sent_id)
    /\ ~agents[ev.sent_id].is_active

\* C36: a heartbeat answered with a status other than 200 leaves the agent's
\* devices, identity, config, saved config, attempt counter and last attempt
\* time as they were, and makes no start attempt.
C36_Non200Ignored ==
    [][ev'.step = "hb" /\ ev'.outcome = "non200"
          => /\ plcs' = plcs
             /\ node_id' = node_id
             /\ config' = config
             /\ saved' = saved
             /\ start_attempt_count' = start_attempt_count
             /\ last_start_attempt_time' = last_start_attempt_time
             /\ ~ev'.attempt
      ]_vars
\* Such a heartbeat while devices are running.
C36_Witness ==
    /\ ev.step = "hb" /\ ev.outcome = "non200"
    /\ plcs # <<>>

\* C37: if from some point on every POST of records is answered 200, the
\* database holds no unmarked record again and again: every record in it,
\* whether left by an earlier run or written by a handler thread while an
\* upload is in progress, is eventually marked uploaded.
C37_UploadLiveness ==
    <>[](~PostNotOk) => []<>(\A i \in DOMAIN logs : logs[i].uploaded)
\* Every record is marked, records written during the run included, after a
\* POST whose answer was lost.
C37_Witness ==
    /\ Len(logs) = MaxRecords
    /\ \A i \in DOMAIN logs : logs[i].uploaded
    /\ Len(srvLogs) > Len(logs)
    /\ ev.step = "post"

\* C38: a fetch that returns a config whose normalized plcs are the installed
\* ones leaves the devices, the config, the attempt counter and the last
\* attempt time alone; a fetch that installs a config installs the
\* normalized plcs of what the server returned, so that the same answer
\* fetched again changes nothing; and no other step changes the installed
\* plcs. Hence one reload per change of the plcs the server returns.
C38_NoReloadLoop ==
    [][/\ (ev'.step = "fetch" /\ ev'.outcome = "ok"
             /\ ParseServerConfig(ev'.body).success
             /\ ParseServerConfig(ev'.body).config.plcs = config.plcs)
            => UNCHANGED <<plcs, config, start_attempt_count, last_start_attempt_time>>
       /\ (ev'.step = "fetch" /\ config'.plcs # config.plcs)
            => /\ ev'.outcome = "ok"
               /\ config'.plcs = ParseServerConfig(ev'.body).config.plcs
               /\ OnConfig(AgentState', ev'.body) = AgentState'
       /\ (ev'.step # "fetch") => config'.plcs = config.plcs
      ]_vars
\* Devices started from a config the agent fetched are still running after a
\* fetch of the same config, which the server stores with a marker key and
\* enabled = 1.
C38_Witness ==
    /\ ev.step = "fetch" /\ ev.outcome = "ok" /\ ev.ran
    /\ plcs # <<>>
    /\ ev.body.plcs = RawS7Marked
    /\ agents[node_id].name = PendingName(node_id)

\* C39: a heartbeat answered 200 from an agent whose row has been deleted
\* registers it again as 'Pending (<node_id>)', inactive, with an empty
\* device list, and a fetch answered 200 with that row's config installs the
\* empty list and leaves no device running.
C39_DeletedReRegisters ==
    [][/\ (ev'.step = "hb" /\ ev'.outcome = "ok"
             /\ node_id \notin DOMAIN agents /\ Adopters(agents, node_id) = {})
            => /\ ev'.reply.status = "registered"
               /\ agents' = [i \in {node_id} |->
                                Row(PendingName(node_id), FALSE,
                                    Cfg(node_id, <<>>, node_id), clock)] @@ agents
       /\ (ev'.step = "fetch" /\ ev'.outcome = "ok"
             /\ agents[node_id].config.plcs = <<>>)
            => /\ config'.plcs = <<>>
               /\ plcs' = <<>>
      ]_vars
\* The devices that were running when the row was deleted have been stopped
\* by the fetch that installed the pending row's empty list.
C39_Witness ==
    /\ ev.step = "fetch" /\ ev.outcome = "ok" /\ ev.ran
    /\ plcs = <<>> /\ config.plcs = <<>>
    /\ agents[node_id].name = PendingName(node_id)
    /\ lastAttemptAt = BootTime

\* C40: the attempt counter is always in 0..max_start_attempts + 1; the
\* terminal error is printed only by a step that takes the counter from
\* max_start_attempts to max_start_attempts + 1, and the counter changes
\* only by one upwards or by a reset to 0, so that a second terminal error
\* needs a reset before it.
C40_CounterRange ==
    /\ [](start_attempt_count \in 0..(MaxStartAttempts + 1))
    /\ [][/\ ev'.error => /\ start_attempt_count = MaxStartAttempts
                          /\ start_attempt_count' = MaxStartAttempts + 1
          /\ (start_attempt_count' # start_attempt_count)
               => \/ start_attempt_count' = 0
                  \/ start_attempt_count' = start_attempt_count + 1
         ]_vars
\* The terminal error has just been printed, after three failed attempts.
C40_Witness ==
    /\ ev.step = "hb" /\ ev.error
    /\ start_attempt_count = MaxStartAttempts + 1
    /\ attemptsSinceReset = MaxStartAttempts
====
